---- MODULE Spec2Model ----
(***************************************************************************)
(* Job-shop simulators of twin_scheduler_simpy: the dynamic simulator      *)
(* (simulator_dynamic.py), the Contract-Net simulator                      *)
(* (simulator_phase3_cnp.py), the machine failure manager, the dispatch    *)
(* rules and the decision clients.                                         *)
(*                                                                         *)
(* Time is counted in ticks of 0.1 simulated time units, so the 0.1        *)
(* backoff and poll delays are 1 tick and a duration of 1.0 is 10 ticks.   *)
(* The SimPy event queue is the sequence evq, ordered by time and, at      *)
(* equal times, by the order of scheduling.                                *)
(***************************************************************************)
EXTENDS Integers, Sequences, FiniteSets, TLC

(***************************************************************************)
(* Bounds of the model.                                                    *)
(***************************************************************************)
NumMachines == 2
MaxJobs == 2
MaxFailures == 1
MaxDenials == 1
Until == 300
MaxQueue == 2
MaxCycleFailures == 3
MaxExchanges == 3
MaxRuleJobs == 3
MaxRuleCalls == 2
MaxDeliveryFailures == 1

(***************************************************************************)
(* Values the random draws of a run are taken from, in ticks.              *)
(***************************************************************************)
InterArrivalTimes == {3}
TimeToFailure == {13}
RepairDraws == {4, 20}
Durations == {10, 20}
OperationCounts == {1, 2}
Never == -1

(***************************************************************************)
(* Delays of the program, in ticks.                                        *)
(***************************************************************************)
RetryBackoff == 1
FailPoll == 1
MinRepair == 10
NegotiateWait == 10
MaxCheckInterval == 10
CheckDivisor == 10

NoJob == -1
NoneDue == -1
Inf == 1000000
AbsentSel == -1
BadSel == -2

Machines == 0 .. (NumMachines - 1)

\* machine_id = None
NoneMachine == 0 - 1

Min(a, b) == IF a <= b THEN a ELSE b
Max(a, b) == IF a >= b THEN a ELSE b

RECURSIVE SumDurations(_)
SumDurations(ops) ==
  IF ops = <<>> THEN 0 ELSE Head(ops)[2] + SumDurations(Tail(ops))

(***************************************************************************)
(* scheduling_rules.py                                                     *)
(***************************************************************************)
get_job_processing_time(job_operations) == SumDurations(job_operations)

\* Variant: the reverse flag is ignored.
SortedIndicesAscending(keys, reverse) ==
  LET n == Len(keys)
      Before(j, i) == keys[j] < keys[i] \/ (keys[j] = keys[i] /\ j < i)
      Pos(i) == 1 + Cardinality({j \in 1 .. n : Before(j, i)})
  IN  [p \in 1 .. n |-> (CHOOSE i \in 1 .. n : Pos(i) = p) - 1]

\* sorted(range(n), key=...): Python's sort is stable, and with reverse=True
\* it still keeps the original order of elements with equal keys.  keys is a
\* sequence; the result lists the 0-based indices.
SortedIndices(keys, reverse) ==
  LET n == Len(keys)
      Before(j, i) ==
        \/ (IF reverse THEN keys[j] > keys[i] ELSE keys[j] < keys[i])
        \/ (keys[j] = keys[i] /\ j < i)
      Pos(i) == 1 + Cardinality({j \in 1 .. n : Before(j, i)})
  IN  [p \in 1 .. n |-> (CHOOSE i \in 1 .. n : Pos(i) = p) - 1]

SPT(jobs_data) ==
  SortedIndices([i \in 1 .. Len(jobs_data) |->
                   get_job_processing_time(jobs_data[i])], FALSE)

\* Variant: the ascending order, turned round.
LPTReversedSPT(jobs_data) ==
  LET asc == SortedIndices([i \in 1 .. Len(jobs_data) |->
                              get_job_processing_time(jobs_data[i])], FALSE)
  IN  [p \in 1 .. Len(asc) |-> asc[Len(asc) + 1 - p]]

LPT(jobs_data) ==
  SortedIndices([i \in 1 .. Len(jobs_data) |->
                   get_job_processing_time(jobs_data[i])], TRUE)

\* due_dates is a function from some job indices (0-based) to a due date or
\* NoneDue; dom = {} stands for a missing or empty dictionary.  Comparing
\* None with anything raises TypeError, which sorted() meets as soon as two
\* keys are compared.
EDDRaises(jobs_data, due_dates) ==
  /\ DOMAIN due_dates # {}
  /\ Len(jobs_data) >= 2
  /\ \E i \in 0 .. (Len(jobs_data) - 1) :
       i \in DOMAIN due_dates /\ due_dates[i] = NoneDue

EDD(jobs_data, due_dates) ==
  IF DOMAIN due_dates = {}
  THEN [p \in 1 .. Len(jobs_data) |-> p - 1]
  ELSE SortedIndices([i \in 1 .. Len(jobs_data) |->
                        IF (i - 1) \in DOMAIN due_dates
                        THEN due_dates[i - 1] ELSE Inf], FALSE)

NoDueDates == [i \in {} |-> 0]

KnownRule(rule_name) == rule_name \in {"SPT", "EDD", "LPT"}

\* apply_rule: ok = FALSE stands for a raised exception (ValueError for an
\* unknown rule, TypeError out of EDD).
apply_rule(rule_name, jobs_data, due_dates) ==
  IF rule_name = "SPT" THEN [ok |-> TRUE, ordered |-> SPT(jobs_data)]
  ELSE IF rule_name = "EDD"
  THEN IF EDDRaises(jobs_data, due_dates)
       THEN [ok |-> FALSE, ordered |-> <<>>]
       ELSE [ok |-> TRUE, ordered |-> EDD(jobs_data, due_dates)]
  ELSE IF rule_name = "LPT" THEN [ok |-> TRUE, ordered |-> LPT(jobs_data)]
  ELSE [ok |-> FALSE, ordered |-> <<>>]

(***************************************************************************)
(* Decision responses.  kind "raise" is a timeout or any exception of the  *)
(* request, "nondict" a reply that is not a JSON object.                   *)
(***************************************************************************)
RaiseResp == [kind |-> "raise", allow |-> "absent", selected_job |-> AbsentSel]
NonDictResp == [kind |-> "nondict", allow |-> "absent", selected_job |-> AbsentSel]
DictResp(a, s) == [kind |-> "dict", allow |-> a, selected_job |-> s]

Responses(ids) ==
  {RaiseResp, NonDictResp} \cup
  {DictResp(a, s) : a \in {"absent", "true", "false"},
                    s \in ids \cup {AbsentSel, BadSel}}

JobIdsOf(queue_jobs) == [i \in 1 .. Len(queue_jobs) |-> queue_jobs[i].job_id]
JobsDataOf(queue_jobs) == [i \in 1 .. Len(queue_jobs) |-> queue_jobs[i].operations]
DueDatesOf(queue_jobs) ==
  [i \in 0 .. (Len(queue_jobs) - 1) |-> queue_jobs[i + 1].due_date]

(***************************************************************************)
(* integration/jade_zmq_client.py and jade_http_client.py: decide_allow.   *)
(***************************************************************************)
decide_allow_fallback(current_job_id, queue_jobs, scheduling_rule) ==
  LET jobs_data == JobsDataOf(queue_jobs)
      job_ids == JobIdsOf(queue_jobs)
      r == apply_rule(scheduling_rule, jobs_data, NoDueDates)
      ordered_indices == IF r.ok THEN r.ordered ELSE SPT(jobs_data)
  IN  IF jobs_data = <<>> THEN TRUE
      ELSE job_ids[ordered_indices[1] + 1] = current_job_id

decide_allow(resp, current_job_id, queue_jobs, scheduling_rule) ==
  IF resp.kind = "dict" /\ resp.allow # "absent"
  THEN resp.allow = "true"
  ELSE IF resp.kind = "dict" /\ resp.selected_job \notin {AbsentSel, BadSel}
  THEN resp.selected_job = current_job_id
  ELSE decide_allow_fallback(current_job_id, queue_jobs, scheduling_rule)

(***************************************************************************)
(* State of a simulation run.                                              *)
(***************************************************************************)
VARIABLES
  sim,                  \* "dynamic" | "cnp" | "static" | "none"
  scheduling_rule,      \* DynamicJobShopSimulator.scheduling_rule
  cnp_client,           \* CNPJobShopSimulator.cnp_client is not None
  failure_budget,       \* failures that fall before the end of the run
  training,             \* DynamicJobShopSimulator.training
  mirroring,            \* DynamicJobShopSimulator.mirroring
  now,                  \* env.now
  evq,                  \* the environment's event queue
  crashed,              \* an exception left env.run()
  job_counter,          \* ArrivalGenerator.job_counter / next_job_id
  arr_sched,            \* arrivals scheduled so far
  fail_sched,           \* failures scheduled so far
  denials,              \* denials answered by the authority so far
  jobs,                 \* job id -> JobSpec
  pc,                   \* job id -> where its process is suspended
  op_idx,               \* job id -> index of its current operation
  pending_jobs,
  jobs_in_progress,
  jobs_completed,
  queue,                \* machine -> DynamicMachine.queue
  users,                \* machine -> holder of machine.resource
  put_queue,            \* machine -> requests waiting for machine.resource
  machine_failed,       \* MachineFailureManager.machine_failed
  fproc,                \* failure process -> its local variables
  failure_events,       \* MachineFailureManager.failure_events
  events,               \* EventManager.events
  num_operations,       \* machine -> num_operations
  total_processing_time,
  channel,              \* the decision exchange in flight
  in_progress,          \* machine -> jobs between START and END or abort
  assigned,             \* job id -> machine assigned by negotiate_assignment
  elapsed,              \* job id -> CNPMachine.process elapsed
  current_job_id,       \* machine -> CNPMachine.current_job_id
  signal,               \* the last failure signal raised by CNPMachine.process
  hit,                  \* machine -> failed flag went up during the running operation
  reneg,                \* job id -> outcome of the last re-negotiation
  renegotiation,        \* the last operation_failure request sent to the authority
  d_in,                 \* inputs of a decision taken on its own
  d_out,                \* its result
  zmq_socket,           \* ZmqClient._socket: "none", or the state of the REQ socket
  cnp_socket,           \* JADECNPClient.socket: the state of the REQ socket
  exchanges,            \* the exchanges made so far
  rule_in,              \* arguments of an apply_rule call
  rule_out,             \* its result
  rule_calls,           \* the apply_rule calls made so far
  replay,               \* two runs of the arrival generator under one seed
  generator,            \* an ArrivalGenerator: its parameters and the jobs it made
  decision,             \* job id -> queue_job_ids and selected_action_idx of its last decision
  feedbacks,            \* the calls of send_feedback so far
  delivery_failures     \* feedback and mirroring deliveries that failed so far

cfgvars == <<sim, scheduling_rule, cnp_client, failure_budget, training,
            mirroring>>
clockvars == <<now, evq, crashed>>
drawvars == <<job_counter, arr_sched, fail_sched, denials>>
jobvars == <<jobs, pc, op_idx, pending_jobs, jobs_in_progress, jobs_completed>>
resvars == <<queue, users, put_queue>>
failvars == <<machine_failed, fproc, failure_events>>
statvars == <<num_operations, total_processing_time>>
cnpvars == <<assigned, elapsed, current_job_id, signal, hit, reneg,
            renegotiation>>
auxvars == <<d_in, d_out, zmq_socket, cnp_socket, exchanges, rule_in, rule_out,
            rule_calls, replay, generator>>
fbvars == <<decision, feedbacks, delivery_failures>>
decvars == <<auxvars, fbvars>>
vars == <<cfgvars, clockvars, drawvars, jobvars, resvars, failvars, statvars,
          cnpvars, decvars, events, channel, in_progress>>

AllJobIds == 0 .. MaxJobs
NoSpec == [job_id |-> NoJob, arrival_time |-> 0, operations |-> <<>>,
           due_date |-> NoneDue]
\* Variant: the job and the machine change places in the message.
FailureSignalSwapped(m, j, operation_index) ==
  [machine_id |-> j, job_id |-> m, operation_index |-> operation_index]

\* The signal raised by CNPMachine.process:
\* RuntimeError("MachineFailure:M<id>:Job<job_id>:Op<operation_index>").
FailureSignal(m, j, operation_index) ==
  [machine_id |-> m, job_id |-> j, operation_index |-> operation_index]

NoSignal == FailureSignal(NoJob, NoJob, NoJob)

\* No operation_failure request has been sent.
NoRequest ==
  [job_id |-> NoJob, operation_index |-> NoJob, failed_machine_id |-> NoJob,
   current_time |-> 0, available_machines |-> <<>>]

NoChannel == [job |-> NoJob, machine |-> NoJob, queue_jobs |-> <<>>,
              resp |-> RaiseResp]

(***************************************************************************)
(* The event queue: Environment.schedule keeps events ordered by time and, *)
(* at equal times, by the order in which they were scheduled.              *)
(***************************************************************************)
Ev(t, k, id) == [t |-> t, k |-> k, id |-> id]

Schedule(q, e) ==
  LET n == Cardinality({i \in 1 .. Len(q) : q[i].t <= e.t})
  IN  SubSeq(q, 1, n) \o <<e>> \o SubSeq(q, n + 1, Len(q))

RECURSIVE ScheduleAll(_, _)
ScheduleAll(q, es) ==
  IF es = <<>> THEN q
  ELSE ScheduleAll(IF Head(es).t = Never THEN q ELSE Schedule(q, Head(es)),
                   Tail(es))

(***************************************************************************)
(* simpy.Resource(capacity=1): request, release, and the grant of the      *)
(* oldest waiting request.  R is a record [users, put_queue, evq].         *)
(***************************************************************************)
\* Variant: the grant does not look at the holder of the resource.
TriggerPutIgnoringUsers(R, m, t) ==
  IF R.put_queue[m] # <<>>
  THEN [users |-> [R.users EXCEPT ![m] = Head(R.put_queue[m])],
        put_queue |-> [R.put_queue EXCEPT ![m] = Tail(@)],
        evq |-> Schedule(R.evq, Ev(t, "job", Head(R.put_queue[m])))]
  ELSE R

TriggerPut(R, m, t) ==
  IF R.users[m] = NoJob /\ R.put_queue[m] # <<>>
  THEN [users |-> [R.users EXCEPT ![m] = Head(R.put_queue[m])],
        put_queue |-> [R.put_queue EXCEPT ![m] = Tail(@)],
        evq |-> Schedule(R.evq, Ev(t, "job", Head(R.put_queue[m])))]
  ELSE R

Request(R, m, j, t) ==
  TriggerPut([R EXCEPT !.put_queue[m] = Append(@, j)], m, t)

\* Variant: the release leaves the holder of the resource in place.
ReleaseKeepsUser(R, m, t) ==
  [R EXCEPT !.evq = Schedule(@, Ev(t, "rel", m))]

Release(R, m, t) ==
  [R EXCEPT !.users[m] = NoJob, !.evq = Schedule(@, Ev(t, "rel", m))]

Res(q) == [users |-> users, put_queue |-> put_queue, evq |-> q]

(***************************************************************************)
(* arrival_generator.py                                                    *)
(***************************************************************************)
DueMulNum == 3
DueMulDen == 2

Distinct(ops) ==
  \A a, b \in 1 .. Len(ops) : a # b => ops[a][1] # ops[b][1]

generate_job_operations ==
  {ops \in UNION {[1 .. n -> Machines \X Durations] :
                    n \in {Min(c, NumMachines) : c \in OperationCounts}} :
     Distinct(ops)}

calculate_due_date(arrival_time, operations) ==
  arrival_time + (SumDurations(operations) * DueMulNum) \div DueMulDen

(***************************************************************************)
(* Construction.  DynamicJobShopSimulator starts the arrival process and   *)
(* one failure process per machine in __init__ and again in run(); the     *)
(* CNP simulator starts them once, in run().  Every process draws its      *)
(* first delay when it is initialised; a draw of Never is a delay beyond   *)
(* the end of the run.                                                     *)
(***************************************************************************)
NumStarts(s) == IF s = "dynamic" THEN 2 ELSE 1

ArrProcs(s) == 0 .. (NumStarts(s) - 1)
FailProcs(s) == 0 .. (NumStarts(s) * NumMachines - 1)
AllFailProcs == 0 .. (2 * NumMachines - 1)
MachineOf(f) == f % NumMachines

StartBlock(i) ==
  <<[k |-> "arr", id |-> i]>> \o
  [m \in 1 .. NumMachines |-> [k |-> "fail", id |-> i * NumMachines + m - 1]]

InitProcs(s) ==
  IF s = "dynamic" THEN StartBlock(0) \o StartBlock(1) ELSE StartBlock(0)

InitDraws(s) ==
  LET procs == InitProcs(s)
  IN  {d \in [1 .. Len(procs) -> InterArrivalTimes \cup TimeToFailure \cup {Never}] :
         /\ \A i \in 1 .. Len(procs) :
              d[i] \in (IF procs[i].k = "arr" THEN InterArrivalTimes
                        ELSE TimeToFailure) \cup {Never}
         /\ Cardinality({i \in 1 .. Len(procs) :
                           procs[i].k = "arr" /\ d[i] # Never}) <= MaxJobs
         /\ Cardinality({i \in 1 .. Len(procs) :
                           procs[i].k = "fail" /\ d[i] # Never}) <= MaxFailures}

Armed(s, d, k) ==
  Cardinality({i \in 1 .. Len(InitProcs(s)) :
                 InitProcs(s)[i].k = k /\ d[i] # Never})

InitQueue(s, d) ==
  ScheduleAll(<<>>, [i \in 1 .. Len(InitProcs(s)) |->
                       Ev(d[i], InitProcs(s)[i].k, InitProcs(s)[i].id)])

\* ZmqClient._socket = None; JADECNPClient.__init__ creates its socket.
InitSockets ==
  /\ zmq_socket = "none"
  /\ cnp_socket = "idle"
  /\ exchanges = <<>>

NoRuleCall == [rule_name |-> "none", jobs_data |-> <<>>, due_dates |-> NoDueDates]

NoRuleResult == [called |-> FALSE, ok |-> FALSE, ordered |-> <<>>]

InitRuleIdle ==
  /\ rule_in = NoRuleCall
  /\ rule_out = NoRuleResult
  /\ rule_calls = <<>>

\* No twin run: seed 0 and no jobs.
NoReplay == [seed |-> 0, runs |-> <<(<<>>), (<<>>)>>]

InitReplayIdle == replay = NoReplay

\* No generator of its own: the simulators draw their jobs themselves.
NoGenerator ==
  [num_machines |-> 0, min_operations |-> 0, max_operations |-> 0,
   min_duration |-> 0, max_duration |-> 0, jobs_generated |-> <<>>]

InitGeneratorIdle == generator = NoGenerator

InitDecideIdle ==
  /\ d_in = [resp |-> RaiseResp, current_job_id |-> NoJob,
             queue_jobs |-> <<>>, scheduling_rule |-> "SPT"]
  /\ d_out = "none"
  /\ InitSockets
  /\ InitReplayIdle
  /\ InitRuleIdle
  /\ InitGeneratorIdle

\* The locals of _process_job before any decision; a denied decision and
\* the end of the operation leave them dead until the next decision sets
\* them again.
NoDecision == [selected_action_idx |-> NoJob, queue_job_ids |-> <<>>]

\* The fields of a freshly constructed simulator.
InitRun ==
  /\ now = 0
  /\ crashed = FALSE
  /\ job_counter = 0
  /\ denials = 0
  /\ jobs = [j \in AllJobIds |-> NoSpec]
  /\ pc = [j \in AllJobIds |-> "none"]
  /\ op_idx = [j \in AllJobIds |-> 0]
  /\ pending_jobs = <<>>
  /\ jobs_in_progress = {}
  /\ jobs_completed = [j \in {} |-> 0]
  /\ queue = [m \in Machines |-> <<>>]
  /\ users = [m \in Machines |-> NoJob]
  /\ put_queue = [m \in Machines |-> <<>>]
  /\ machine_failed = [m \in Machines |-> FALSE]
  /\ fproc = [f \in AllFailProcs |->
                [st |-> "up", failure_time |-> 0, repair_duration |-> 0]]
  /\ failure_events = <<>>
  /\ events = <<>>
  /\ num_operations = [m \in Machines |-> 0]
  /\ total_processing_time = [m \in Machines |-> 0]
  /\ channel = NoChannel
  /\ in_progress = [m \in Machines |-> {}]
  /\ assigned = [j \in AllJobIds |-> NoJob]
  /\ elapsed = [j \in AllJobIds |-> 0]
  /\ current_job_id = [m \in Machines |-> NoJob]
  /\ signal = NoSignal
  /\ hit = [m \in Machines |-> FALSE]
  /\ reneg = [j \in AllJobIds |-> "none"]
  /\ renegotiation = NoRequest
  /\ decision = [j \in AllJobIds |-> NoDecision]
  /\ feedbacks = <<>>
  /\ delivery_failures = 0

\* The simulators run with training and mirroring off unless a
\* specification says otherwise.
InitSimWith(s, rule, client, train, mirror) ==
  /\ sim = s
  /\ scheduling_rule = rule
  /\ cnp_client = client
  /\ failure_budget = MaxFailures
  /\ training = train
  /\ mirroring = mirror
  /\ \E d \in InitDraws(s) :
       /\ evq = InitQueue(s, d)
       /\ arr_sched = Armed(s, d, "arr")
       /\ fail_sched = Armed(s, d, "fail")
  /\ InitRun
  /\ InitDecideIdle

InitSim(s, rule, client) == InitSimWith(s, rule, client, FALSE, FALSE)

LocalRules == {"SPT", "EDD", "LPT"}

InitLocal == \E rule \in LocalRules : InitSim("dynamic", rule, FALSE)

InitJade == InitSim("dynamic", "JADE", FALSE)

\* DynamicJobShopSimulator.__init__ stores scheduling_rule as it is given.
UnknownRules == {"FIFO"}

InitUnknownRule == \E rule \in UnknownRules : InitSim("dynamic", rule, FALSE)

(***************************************************************************)
(* The event loop: Environment.step() takes the first event of the queue   *)
(* and advances the clock to it; run(until) stops before the events of     *)
(* time until.                                                             *)
(***************************************************************************)
Ready(k) ==
  /\ ~crashed
  /\ channel.job = NoJob
  /\ evq # <<>>
  /\ Head(evq).k = k
  /\ Head(evq).t < Until

SimEvent(time, event_type, job_id, machine_id, queue_length) ==
  [time |-> time, event_type |-> event_type, job_id |-> job_id,
   machine_id |-> machine_id, queue_length |-> queue_length]

\* Variant: the job joins the queue even when it is already there.
AppendAlways(q, j) == Append(q, j)

AppendIfAbsent(q, j) ==
  IF \E i \in 1 .. Len(q) : q[i] = j THEN q ELSE Append(q, j)

Remove(q, j) == SelectSeq(q, LAMBDA x : x # j)

IndexOf(q, j) == CHOOSE i \in 1 .. Len(q) : q[i] = j

InSeq(q, j) == \E i \in 1 .. Len(q) : q[i] = j

(***************************************************************************)
(* Deliveries to the authority: notify_event (mirroring) and send_feedback *)
(* (training).  Either catches every exception of the exchange and returns *)
(* False, and the simulator ignores the value returned.  A step makes n    *)
(* deliveries, of which some may fail.                                     *)
(***************************************************************************)
\* Variant: a failed delivery raises into the caller.
DeliveryRaisesOnFailure(failed) == failed > 0

DeliveryRaises(failed) == FALSE

Deliver(n) ==
  \E failed \in 0 .. n :
    /\ delivery_failures + failed <= MaxDeliveryFailures
    /\ delivery_failures' = delivery_failures + failed
    /\ crashed' = (crashed \/ DeliveryRaises(failed))

Mirrors(n) == IF sim = "dynamic" /\ mirroring THEN n ELSE 0

Feedbacks(n) ==
  IF sim = "dynamic" /\ scheduling_rule = "JADE" /\ training THEN n ELSE 0

\* Variant: the statistics of one machine are taken over every machine's events.
EventsOfAnyMachine(machine_id) == failure_events

\* The recorded failure events get_failure_stats looks at: those of the
\* machine asked for, or all of them when machine_id is None.
EventsOfMachine(machine_id) ==
  IF machine_id # NoneMachine
  THEN SelectSeq(failure_events, LAMBDA e : e.machine_id = machine_id)
  ELSE failure_events

RECURSIVE SumField(_, _)
SumField(evs, field) ==
  IF evs = <<>> THEN 0 ELSE evs[1][field] + SumField(Tail(evs), field)

\* Times are in ticks; availability is the percentage, and the average
\* repair time the quotient, rounded down to a whole number.
get_failure_stats(machine_id) ==
  LET evs == EventsOfMachine(machine_id)
  IN  IF evs = <<>>
      THEN [num_failures |-> 0, total_downtime |-> 0, availability |-> 100,
            avg_repair_time |-> 0]
      ELSE LET num_failures == Len(evs)
               total_downtime == SumField(evs, "downtime")
               total_time == IF now > 0 THEN now ELSE 1
           IN  [num_failures |-> num_failures,
                total_downtime |-> total_downtime,
                availability |-> ((total_time - total_downtime) * 100) \div total_time,
                avg_repair_time |-> SumField(evs, "repair_duration") \div num_failures]

\* Variant: the repair is logged at the time of the failure it ends.
RepairLogTimeOfFailure(event) == event.failure_time

\* The time under which _on_machine_repair logs the end of a repair.
RepairLogTime(event) == event.repair_end_time

(***************************************************************************)
(* machine_failures.py: failure_process                                    *)
(***************************************************************************)
Failure(f) ==
  /\ Ready("fail")
  /\ Head(evq).id = f
  /\ fproc[f].st = "up"
  /\ LET t == Head(evq).t
         m == MachineOf(f)
     IN  /\ now' = t
         /\ machine_failed' = [machine_failed EXCEPT ![m] = TRUE]
         /\ \E draw \in RepairDraws :
              LET repair_duration == Max(MinRepair, draw)
              IN
              /\ fproc' = [fproc EXCEPT ![f] =
                             [st |-> "repair", failure_time |-> t,
                              repair_duration |-> repair_duration]]
              /\ evq' = Schedule(Tail(evq), Ev(t + repair_duration, "fail", f))
         /\ events' = IF sim = "dynamic"
                      THEN Append(events, SimEvent(t, "failure", NoJob, m, 0))
                      ELSE events
         /\ hit' = [hit EXCEPT ![m] = @ \/ current_job_id[m] # NoJob]
  /\ Deliver(Mirrors(1))
  /\ UNCHANGED <<cfgvars, drawvars, jobvars, resvars, failure_events,
                 statvars, channel, in_progress, assigned, elapsed,
                 current_job_id, signal, reneg, renegotiation, auxvars,
                 decision, feedbacks>>

Repair(f) ==
  /\ Ready("fail")
  /\ Head(evq).id = f
  /\ fproc[f].st = "repair"
  /\ LET t == Head(evq).t
         m == MachineOf(f)
     IN  /\ now' = t
         /\ machine_failed' = [machine_failed EXCEPT ![m] = FALSE]
         /\ failure_events' =
              Append(failure_events,
                     [machine_id |-> m, failure_time |-> fproc[f].failure_time,
                      repair_duration |-> fproc[f].repair_duration,
                      repair_end_time |-> t,
                      downtime |-> t - fproc[f].failure_time])
         /\ events' = IF sim = "dynamic"
                      THEN Append(events,
                             SimEvent(RepairLogTime(failure_events'[Len(failure_events')]),
                                      "repair_end", NoJob, m, 0))
                      ELSE events
         /\ fproc' = [fproc EXCEPT ![f] =
                        [st |-> "up", failure_time |-> 0, repair_duration |-> 0]]
         /\ \E time_to_failure \in TimeToFailure \cup {Never} :
              /\ time_to_failure # Never => fail_sched < failure_budget
              /\ fail_sched' = IF time_to_failure = Never THEN fail_sched
                               ELSE fail_sched + 1
              /\ evq' = IF time_to_failure = Never THEN Tail(evq)
                        ELSE Schedule(Tail(evq), Ev(t + time_to_failure, "fail", f))
  /\ Deliver(Mirrors(1))
  /\ UNCHANGED <<cfgvars, job_counter, arr_sched, denials, jobvars,
                 resvars, statvars, channel, in_progress, cnpvars, auxvars,
                 decision, feedbacks>>

(***************************************************************************)
(* The Release event of machine.resource is processed: the oldest waiting  *)
(* request is granted.                                                     *)
(***************************************************************************)
ReleaseEvent(m) ==
  /\ Ready("rel")
  /\ Head(evq).id = m
  /\ LET t == Head(evq).t
         R == TriggerPut(Res(Tail(evq)), m, t)
     IN  /\ now' = t
         /\ users' = R.users
         /\ put_queue' = R.put_queue
         /\ evq' = R.evq
  /\ UNCHANGED <<cfgvars, crashed, drawvars, jobvars, queue, failvars,
                 statvars, channel, in_progress, cnpvars, decvars, events>>

(***************************************************************************)
(* simulator_dynamic.py: DynamicMachine.process.  The operation waits in   *)
(* steps of 0.1 while the machine is failed and then runs for its          *)
(* duration.                                                               *)
(***************************************************************************)
\* Variant: the run begins without looking at the failed flag.
ProcessWaitNoBlock(m, duration) == [pc |-> "run", delay |-> duration]

\* Variant: the run lasts one poll step whatever the duration.
ProcessWaitOneStep(m, duration) ==
  IF machine_failed[m]
  THEN [pc |-> "poll", delay |-> FailPoll]
  ELSE [pc |-> "run", delay |-> FailPoll]

ProcessWait(m, duration) ==
  IF machine_failed[m]
  THEN [pc |-> "poll", delay |-> FailPoll]
  ELSE [pc |-> "run", delay |-> duration]

\* Variant: the loop variable is not advanced.
CurrentOpFirst(j) == jobs[j].operations[1]

CurrentOp(j) == jobs[j].operations[op_idx[j] + 1]

(***************************************************************************)
(* simulator_dynamic.py: _process_job, the snapshot of the queue and the   *)
(* decision.                                                               *)
(***************************************************************************)
QueueJob(jid) ==
  IF jid \in jobs_in_progress \/ InSeq(pending_jobs, jid)
  THEN [job_id |-> jobs[jid].job_id, operations |-> jobs[jid].operations,
        due_date |-> jobs[jid].due_date,
        next_op_duration |-> IF jobs[jid].operations # <<>>
                             THEN jobs[jid].operations[1][2] ELSE NoneDue]
  ELSE [job_id |-> jid, operations |-> <<>>, due_date |-> NoneDue,
        next_op_duration |-> NoneDue]

QueueSnapshot(m) == [i \in 1 .. Len(queue[m]) |-> QueueJob(queue[m][i])]

\* Variant: the head of the queue is admitted, whatever the rule.
LocalDecisionFifo(rule, job_id, queue_jobs) ==
  LET job_ids == JobIdsOf(queue_jobs)
  IN  IF job_ids # <<>> THEN job_ids[1] = job_id ELSE TRUE

LocalDecision(rule, job_id, queue_jobs) ==
  LET jobs_data == JobsDataOf(queue_jobs)
      job_ids == JobIdsOf(queue_jobs)
      r == apply_rule(rule, jobs_data, DueDatesOf(queue_jobs))
      ordered_indices == IF r.ok THEN r.ordered ELSE SPT(jobs_data)
  IN  IF ordered_indices # <<>>
      THEN job_ids[ordered_indices[1] + 1] = job_id
      ELSE TRUE

\* The delegated decision: allowed starts True; a dictionary reply sets it
\* from 'allow' and then from 'selected_job'; any exception sets it True.
InlineDecision(resp, job_id, queue_jobs) ==
  LET queue_job_ids == JobIdsOf(queue_jobs)
      by_allow == IF resp.allow # "absent" THEN resp.allow = "true" ELSE TRUE
  IN  IF resp.kind # "dict"
      THEN [allowed |-> TRUE, selected_action_idx |-> NoJob]
      ELSE IF resp.selected_job = AbsentSel
      THEN [allowed |-> by_allow, selected_action_idx |-> NoJob]
      ELSE IF resp.selected_job = BadSel
      THEN [allowed |-> TRUE, selected_action_idx |-> NoJob]
      ELSE [allowed |-> resp.selected_job = job_id,
            selected_action_idx |->
              IF InSeq(queue_job_ids, resp.selected_job)
              THEN IndexOf(queue_job_ids, resp.selected_job) - 1 ELSE NoJob]

\* After the decision, at time t with the rest q0 of the event queue: a
\* denied job releases the machine and retries after the backoff; an allowed
\* job leaves the queue, logs START and starts machine.process.
\* Variant: a denied job gives up its place in the wait queue.
AdmitOrRetryAtTail(j, m, allowed, t, q0) ==
  IF ~allowed
  THEN LET R == Release(Res(q0), m, t)
       IN  /\ users' = R.users
           /\ put_queue' = R.put_queue
           /\ evq' = Schedule(R.evq, Ev(t + RetryBackoff, "job", j))
           /\ pc' = [pc EXCEPT ![j] = "backoff"]
           /\ queue' = [queue EXCEPT ![m] = Remove(@, j)]
           /\ UNCHANGED <<events, in_progress>>
  ELSE LET w == ProcessWait(m, CurrentOp(j)[2])
           q1 == Remove(queue[m], j)
       IN  /\ queue' = [queue EXCEPT ![m] = q1]
           /\ events' = Append(events, SimEvent(t, "start", j, m, Len(q1)))
           /\ in_progress' = [in_progress EXCEPT ![m] = @ \cup {j}]
           /\ evq' = Schedule(q0, Ev(t + w.delay, "job", j))
           /\ pc' = [pc EXCEPT ![j] = w.pc]
           /\ UNCHANGED <<users, put_queue>>

\* Variant: a denied job releases the machine and is not woken again.
AdmitOrRetryNoBackoff(j, m, allowed, t, q0) ==
  IF ~allowed
  THEN LET R == Release(Res(q0), m, t)
       IN  /\ users' = R.users
           /\ put_queue' = R.put_queue
           /\ evq' = R.evq
           /\ pc' = [pc EXCEPT ![j] = "backoff"]
           /\ UNCHANGED <<queue, events, in_progress>>
  ELSE LET w == ProcessWait(m, CurrentOp(j)[2])
           q1 == Remove(queue[m], j)
       IN  /\ queue' = [queue EXCEPT ![m] = q1]
           /\ events' = Append(events, SimEvent(t, "start", j, m, Len(q1)))
           /\ in_progress' = [in_progress EXCEPT ![m] = @ \cup {j}]
           /\ evq' = Schedule(q0, Ev(t + w.delay, "job", j))
           /\ pc' = [pc EXCEPT ![j] = w.pc]
           /\ UNCHANGED <<users, put_queue>>

AdmitOrRetry(j, m, allowed, t, q0) ==
  IF ~allowed
  THEN LET R == Release(Res(q0), m, t)
       IN  /\ users' = R.users
           /\ put_queue' = R.put_queue
           /\ evq' = Schedule(R.evq, Ev(t + RetryBackoff, "job", j))
           /\ pc' = [pc EXCEPT ![j] = "backoff"]
           /\ UNCHANGED <<queue, events, in_progress>>
  ELSE LET w == ProcessWait(m, CurrentOp(j)[2])
           q1 == Remove(queue[m], j)
       IN  /\ queue' = [queue EXCEPT ![m] = q1]
           /\ events' = Append(events, SimEvent(t, "start", j, m, Len(q1)))
           /\ in_progress' = [in_progress EXCEPT ![m] = @ \cup {j}]
           /\ evq' = Schedule(q0, Ev(t + w.delay, "job", j))
           /\ pc' = [pc EXCEPT ![j] = w.pc]
           /\ UNCHANGED <<users, put_queue>>

IsJob(j, s) == Ready("job") /\ Head(evq).id = j /\ sim = s

DynGrantLocal(j) ==
  /\ IsJob(j, "dynamic")
  /\ pc[j] = "req"
  /\ scheduling_rule # "JADE"
  /\ LET t == Head(evq).t
         m == CurrentOp(j)[1]
     IN  /\ now' = t
         /\ AdmitOrRetry(j, m, LocalDecision(scheduling_rule, j, QueueSnapshot(m)),
                         t, Tail(evq))
         /\ Deliver(Mirrors(IF LocalDecision(scheduling_rule, j, QueueSnapshot(m))
                            THEN 1 ELSE 0))
  /\ UNCHANGED <<cfgvars, drawvars, jobs, op_idx, pending_jobs,
                 jobs_in_progress, jobs_completed, failvars, statvars,
                 channel, cnpvars, auxvars, decision, feedbacks>>

\* Delegated mode: the request is sent with the snapshot and the reply (or
\* the failure of the exchange) is whatever the authority and the channel
\* produce.
DynGrantJade(j) ==
  /\ IsJob(j, "dynamic")
  /\ pc[j] = "req"
  /\ scheduling_rule = "JADE"
  /\ LET t == Head(evq).t
         m == CurrentOp(j)[1]
         queue_jobs == QueueSnapshot(m)
     IN  /\ now' = t
         /\ evq' = Tail(evq)
         /\ \E resp \in Responses(1 .. MaxJobs) :
              /\ InlineDecision(resp, j, queue_jobs).allowed \/ denials < MaxDenials
              /\ channel' = [job |-> j, machine |-> m,
                             queue_jobs |-> queue_jobs, resp |-> resp]
  /\ UNCHANGED <<cfgvars, crashed, drawvars, jobvars, resvars, failvars,
                 statvars, in_progress, cnpvars, decvars, events>>

DynReply(j) ==
  /\ ~crashed
  /\ sim = "dynamic"
  /\ channel.job = j
  /\ LET d == InlineDecision(channel.resp, j, channel.queue_jobs)
     IN  /\ AdmitOrRetry(j, channel.machine, d.allowed, now, evq)
         /\ denials' = IF d.allowed THEN denials ELSE denials + 1
         /\ decision' = [decision EXCEPT ![j] =
                           IF d.allowed
                           THEN [selected_action_idx |-> d.selected_action_idx,
                                 queue_job_ids |-> JobIdsOf(channel.queue_jobs)]
                           ELSE NoDecision]
         /\ Deliver(Mirrors(IF d.allowed THEN 1 ELSE 0))
  /\ channel' = NoChannel
  /\ UNCHANGED <<cfgvars, now, job_counter, arr_sched, fail_sched,
                 jobs, op_idx, pending_jobs, jobs_in_progress, jobs_completed,
                 failvars, statvars, cnpvars, auxvars, feedbacks>>

\* The backoff is over: back to the top of the while loop.
DynRetry(j) ==
  /\ IsJob(j, "dynamic")
  /\ pc[j] = "backoff"
  /\ LET t == Head(evq).t
         m == CurrentOp(j)[1]
         R == Request(Res(Tail(evq)), m, j, t)
     IN  /\ now' = t
         /\ queue' = [queue EXCEPT ![m] = AppendIfAbsent(@, j)]
         /\ users' = R.users
         /\ put_queue' = R.put_queue
         /\ evq' = R.evq
         /\ pc' = [pc EXCEPT ![j] = "req"]
  /\ UNCHANGED <<cfgvars, crashed, drawvars, jobs, op_idx, pending_jobs,
                 jobs_in_progress, jobs_completed, failvars, statvars,
                 channel, in_progress, cnpvars, decvars, events>>

DynPoll(j) ==
  /\ IsJob(j, "dynamic")
  /\ pc[j] = "poll"
  /\ LET t == Head(evq).t
         w == ProcessWait(CurrentOp(j)[1], CurrentOp(j)[2])
     IN  /\ now' = t
         /\ evq' = Schedule(Tail(evq), Ev(t + w.delay, "job", j))
         /\ pc' = [pc EXCEPT ![j] = w.pc]
  /\ UNCHANGED <<cfgvars, crashed, drawvars, jobs, op_idx, pending_jobs,
                 jobs_in_progress, jobs_completed, resvars, failvars, statvars,
                 channel, in_progress, cnpvars, decvars, events>>

\* machine.process returns: its process event resumes _process_job.
DynProcessEnd(j) ==
  /\ IsJob(j, "dynamic")
  /\ pc[j] = "run"
  /\ LET t == Head(evq).t
         m == CurrentOp(j)[1]
     IN  /\ now' = t
         /\ total_processing_time' =
              [total_processing_time EXCEPT ![m] = @ + CurrentOp(j)[2]]
         /\ num_operations' = [num_operations EXCEPT ![m] = @ + 1]
         /\ evq' = Schedule(Tail(evq), Ev(t, "job", j))
         /\ pc' = [pc EXCEPT ![j] = "procdone"]
  /\ UNCHANGED <<cfgvars, crashed, drawvars, jobs, op_idx, pending_jobs,
                 jobs_in_progress, jobs_completed, resvars, failvars,
                 channel, in_progress, cnpvars, decvars, events>>

\* Variant: the tardiness is the signed lateness.
CompletedRecordSigned(j, completion_time) ==
  [job_id |-> j, arrival_time |-> jobs[j].arrival_time,
   completion_time |-> completion_time,
   makespan |-> completion_time - jobs[j].arrival_time,
   due_date |-> jobs[j].due_date,
   tardiness |-> completion_time - jobs[j].due_date]

CompletedRecord(j, completion_time) ==
  [job_id |-> j, arrival_time |-> jobs[j].arrival_time,
   completion_time |-> completion_time,
   makespan |-> completion_time - jobs[j].arrival_time,
   due_date |-> jobs[j].due_date,
   tardiness |-> Max(0, completion_time - jobs[j].due_date)]

\* send_feedback after the END of job j's operation on machine m: the
\* action is selected_action_idx when the reply named a job, else 0; the
\* queue is the snapshot of the decision that admitted the job.
Feedback(j, m, end_time) ==
  [time |-> end_time, machine_id |-> m, current_job |-> j,
   queue_job_ids |-> decision[j].queue_job_ids,
   action |-> IF decision[j].selected_action_idx # NoJob
              THEN decision[j].selected_action_idx ELSE 0,
   reward |-> 0 - Max(0, end_time - jobs[j].due_date)]

\* Variant: the completed job stays tracked as in progress.
EndTrackingKeep(j) == jobs_in_progress

\* del self.jobs_in_progress[job.job_id]
EndTracking(j) == jobs_in_progress \ {j}

\* END is logged and the machine released; the job goes on to its next
\* operation or is completed.
DynOperationEnd(j) ==
  /\ IsJob(j, "dynamic")
  /\ pc[j] = "procdone"
  /\ LET t == Head(evq).t
         m == CurrentOp(j)[1]
         R1 == Release(Res(Tail(evq)), m, t)
         ended == Append(events, SimEvent(t, "end", j, m, 0))
     IN  /\ now' = t
         /\ in_progress' = [in_progress EXCEPT ![m] = @ \ {j}]
         /\ feedbacks' = IF Feedbacks(1) = 1
                         THEN Append(feedbacks, Feedback(j, m, t))
                         ELSE feedbacks
         /\ decision' = [decision EXCEPT ![j] = NoDecision]
         /\ Deliver(Mirrors(1) + Feedbacks(1) +
                    (IF op_idx[j] + 1 < Len(jobs[j].operations) THEN 0
                     ELSE Mirrors(1)))
         /\ IF op_idx[j] + 1 < Len(jobs[j].operations)
            THEN LET m2 == jobs[j].operations[op_idx[j] + 2][1]
                     q2 == [queue EXCEPT ![m2] = AppendIfAbsent(@, j)]
                     R2 == Request(R1, m2, j, t)
                 IN  /\ op_idx' = [op_idx EXCEPT ![j] = @ + 1]
                     /\ queue' = q2
                     /\ users' = R2.users
                     /\ put_queue' = R2.put_queue
                     /\ evq' = R2.evq
                     /\ pc' = [pc EXCEPT ![j] = "req"]
                     /\ events' = ended
                     /\ UNCHANGED <<jobs_completed, jobs_in_progress>>
            ELSE /\ users' = R1.users
                 /\ put_queue' = R1.put_queue
                 /\ evq' = R1.evq
                 /\ jobs_completed' = (j :> CompletedRecord(j, t)) @@ jobs_completed
                 /\ events' = Append(ended, SimEvent(t, "complete", j, NoJob, 0))
                 /\ jobs_in_progress' = EndTracking(j)
                 /\ pc' = [pc EXCEPT ![j] = "done"]
                 /\ UNCHANGED <<op_idx, queue>>
  /\ UNCHANGED <<cfgvars, drawvars, jobs, pending_jobs, failvars,
                 statvars, channel, cnpvars, auxvars>>

\* arrival_process and _on_job_arrival: the job is created, ARRIVAL is
\* logged, _process_job starts (first request) and the next arrival is drawn.
DynArrival(a) ==
  /\ Ready("arr")
  /\ Head(evq).id = a
  /\ sim = "dynamic"
  /\ LET t == Head(evq).t
         j == job_counter + 1
     IN  /\ now' = t
         /\ job_counter' = j
         /\ \E operations \in generate_job_operations,
               inter_arrival_time \in InterArrivalTimes \cup {Never} :
              LET m == operations[1][1]
                  q0 == IF inter_arrival_time = Never THEN Tail(evq)
                        ELSE Schedule(Tail(evq), Ev(t + inter_arrival_time, "arr", a))
                  R == Request(Res(q0), m, j, t)
              IN  /\ inter_arrival_time # Never => arr_sched < MaxJobs
                  /\ arr_sched' = IF inter_arrival_time = Never THEN arr_sched
                                  ELSE arr_sched + 1
                  /\ jobs' = [jobs EXCEPT ![j] =
                                [job_id |-> j, arrival_time |-> t,
                                 operations |-> operations,
                                 due_date |-> calculate_due_date(t, operations)]]
                  /\ queue' = [queue EXCEPT ![m] = AppendIfAbsent(@, j)]
                  /\ users' = R.users
                  /\ put_queue' = R.put_queue
                  /\ evq' = R.evq
         /\ pending_jobs' = Append(pending_jobs, j)
         /\ events' = Append(events, SimEvent(t, "arrival", j, NoJob, 0))
         /\ jobs_in_progress' = jobs_in_progress \cup {j}
         /\ pc' = [pc EXCEPT ![j] = "req"]
  /\ Deliver(Mirrors(1))
  /\ UNCHANGED <<cfgvars, fail_sched, denials, op_idx, jobs_completed,
                 failvars, statvars, channel, in_progress, cnpvars, auxvars,
                 decision, feedbacks>>

(***************************************************************************)
(* simulator_phase3_cnp.py: negotiate_assignment.  The machines of a type  *)
(* are the machines whose id is the type.  The authority's answer is a     *)
(* machine id, or NoJob for no assignment (failed negotiation, timeout).   *)
(***************************************************************************)
Available(machine_type) ==
  IF machine_failed[machine_type] THEN <<>> ELSE <<machine_type>>

Answers == IF cnp_client THEN Machines \cup {NoJob} ELSE {NoJob}

\* The second half of negotiate_assignment and the request of the machine.
Assign(j, available, t, R) ==
  \E answer \in Answers :
    LET a == IF answer # NoJob THEN answer
             ELSE IF available # <<>> THEN available[1] ELSE NoJob
        R2 == IF a = NoJob THEN R ELSE Request(R, a, j, t)
    IN  /\ assigned' = [assigned EXCEPT ![j] = a]
        /\ pc' = [pc EXCEPT ![j] = IF a = NoJob THEN "unassigned" ELSE "req"]
        /\ users' = R2.users
        /\ put_queue' = R2.put_queue
        /\ evq' = R2.evq

\* The job turns to operation op: with no machine available it waits 1.0
\* once, otherwise it negotiates at once.
BeginOp(j, op, t, R) ==
  IF Available(op[1]) = <<>>
  THEN /\ pc' = [pc EXCEPT ![j] = "negwait"]
       /\ evq' = Schedule(R.evq, Ev(t + NegotiateWait, "job", j))
       /\ users' = R.users
       /\ put_queue' = R.put_queue
       /\ assigned' = [assigned EXCEPT ![j] = NoJob]
  ELSE Assign(j, Available(op[1]), t, R)

CnpArrival(a) ==
  /\ Ready("arr")
  /\ Head(evq).id = a
  /\ sim = "cnp"
  /\ LET t == Head(evq).t
         j == job_counter
     IN  /\ now' = t
         /\ job_counter' = j + 1
         /\ \E operations \in generate_job_operations,
               interarrival_time \in InterArrivalTimes \cup {Never} :
              LET q0 == IF interarrival_time = Never THEN Tail(evq)
                        ELSE Schedule(Tail(evq), Ev(t + interarrival_time, "arr", a))
              IN  /\ interarrival_time # Never => arr_sched < MaxJobs
                  /\ arr_sched' = IF interarrival_time = Never THEN arr_sched
                                  ELSE arr_sched + 1
                  /\ jobs' = [jobs EXCEPT ![j] =
                                [job_id |-> j, arrival_time |-> t,
                                 operations |-> operations,
                                 due_date |-> calculate_due_date(t, operations)]]
                  /\ BeginOp(j, operations[1], t, Res(q0))
         /\ events' = Append(events, SimEvent(t, "arrival", j, NoJob, 0))
  /\ UNCHANGED <<cfgvars, crashed, fail_sched, denials, op_idx, pending_jobs,
                 jobs_in_progress, jobs_completed, queue, failvars, statvars,
                 channel, in_progress, elapsed, current_job_id, signal, hit,
                 reneg, renegotiation, decvars>>

CnpNegotiateRetry(j) ==
  /\ IsJob(j, "cnp")
  /\ pc[j] = "negwait"
  /\ LET t == Head(evq).t
     IN  /\ now' = t
         /\ Assign(j, Available(CurrentOp(j)[1]), t, Res(Tail(evq)))
  /\ UNCHANGED <<cfgvars, crashed, drawvars, jobs, op_idx, pending_jobs,
                 jobs_in_progress, jobs_completed, queue, failvars, statvars,
                 channel, in_progress, elapsed, current_job_id, signal, hit,
                 reneg, renegotiation, decvars, events>>

(***************************************************************************)
(* simulator_phase3_cnp.py: CNPMachine.process                             *)
(***************************************************************************)
\* Variant: the flag is looked at once, when the whole duration has passed.
check_interval_whole(duration) == duration

check_interval(duration) == Min(MaxCheckInterval, duration \div CheckDivisor)

next_check(duration, el) == Min(check_interval(duration), duration - el)

\* The wait while the machine is failed, then the first step of the run.
CnpProcessWait(j, m, t, q0) ==
  IF machine_failed[m]
  THEN /\ pc' = [pc EXCEPT ![j] = "poll"]
       /\ evq' = Schedule(q0, Ev(t + FailPoll, "job", j))
       /\ UNCHANGED <<current_job_id, elapsed, hit>>
  ELSE /\ pc' = [pc EXCEPT ![j] = "check"]
       /\ current_job_id' = [current_job_id EXCEPT ![m] = j]
       /\ elapsed' = [elapsed EXCEPT ![j] = 0]
       /\ hit' = [hit EXCEPT ![m] = FALSE]
       /\ evq' = Schedule(q0, Ev(t + next_check(CurrentOp(j)[2], 0), "job", j))

\* The request is granted: START is logged and machine.process begins.
CnpGranted(j) ==
  /\ IsJob(j, "cnp")
  /\ pc[j] = "req"
  /\ LET t == Head(evq).t
         m == assigned[j]
     IN  /\ now' = t
         /\ events' = Append(events, SimEvent(t, "start", j, m, 0))
         /\ in_progress' = [in_progress EXCEPT ![m] = @ \cup {j}]
         /\ CnpProcessWait(j, m, t, Tail(evq))
  /\ UNCHANGED <<cfgvars, crashed, drawvars, jobs, op_idx, pending_jobs,
                 jobs_in_progress, jobs_completed, resvars, failvars, statvars,
                 channel, assigned, signal, reneg, renegotiation, decvars>>

CnpPoll(j) ==
  /\ IsJob(j, "cnp")
  /\ pc[j] = "poll"
  /\ LET t == Head(evq).t
     IN  /\ now' = t
         /\ CnpProcessWait(j, assigned[j], t, Tail(evq))
  /\ UNCHANGED <<cfgvars, crashed, drawvars, jobs, op_idx, pending_jobs,
                 jobs_in_progress, jobs_completed, resvars, failvars, statvars,
                 channel, in_progress, assigned, signal, reneg, renegotiation,
                 decvars, events>>

\* After the with block of an operation: the machine is released and the
\* for loop goes on to the next operation, or the job is completed.
CnpAdvance(j, m, t, q0, log) ==
  LET R1 == Release(Res(q0), m, t)
  IN  IF op_idx[j] + 1 < Len(jobs[j].operations)
      THEN /\ op_idx' = [op_idx EXCEPT ![j] = @ + 1]
           /\ BeginOp(j, jobs[j].operations[op_idx[j] + 2], t, R1)
           /\ events' = log
           /\ UNCHANGED jobs_completed
      ELSE /\ users' = R1.users
           /\ put_queue' = R1.put_queue
           /\ evq' = R1.evq
           /\ pc' = [pc EXCEPT ![j] = "done"]
           /\ jobs_completed' = (j :> CompletedRecord(j, t)) @@ jobs_completed
           /\ events' = Append(log, SimEvent(t, "complete", j, NoJob, 0))
           /\ UNCHANGED <<op_idx, assigned>>

\* One more interval of the run has passed and the operation goes on.
CnpCheckContinue(j) ==
  /\ IsJob(j, "cnp")
  /\ pc[j] = "check"
  /\ LET t == Head(evq).t
         m == assigned[j]
         duration == CurrentOp(j)[2]
         el == elapsed[j] + next_check(duration, elapsed[j])
     IN  /\ ~machine_failed[m]
         /\ el < duration
         /\ now' = t
         /\ elapsed' = [elapsed EXCEPT ![j] = el]
         /\ evq' = Schedule(Tail(evq), Ev(t + next_check(duration, el), "job", j))
  /\ UNCHANGED <<cfgvars, crashed, drawvars, jobvars, resvars, failvars,
                 statvars, channel, in_progress, assigned, current_job_id,
                 signal, hit, reneg, renegotiation, decvars, events>>

\* The last interval has passed with the machine up: the operation is
\* completed, END is logged.
CnpOperationEnd(j) ==
  /\ IsJob(j, "cnp")
  /\ pc[j] = "check"
  /\ LET t == Head(evq).t
         m == assigned[j]
         duration == CurrentOp(j)[2]
         el == elapsed[j] + next_check(duration, elapsed[j])
     IN  /\ ~machine_failed[m]
         /\ el >= duration
         /\ now' = t
         /\ elapsed' = [elapsed EXCEPT ![j] = el]
         /\ total_processing_time' = [total_processing_time EXCEPT ![m] = @ + duration]
         /\ num_operations' = [num_operations EXCEPT ![m] = @ + 1]
         /\ current_job_id' = [current_job_id EXCEPT ![m] = NoJob]
         /\ in_progress' = [in_progress EXCEPT ![m] = @ \ {j}]
         /\ CnpAdvance(j, m, t, Tail(evq),
                       Append(events, SimEvent(t, "end", j, m, 0)))
  /\ UNCHANGED <<cfgvars, crashed, drawvars, jobs, pending_jobs,
                 jobs_in_progress, queue, failvars, channel, signal, hit,
                 reneg, renegotiation, decvars>>

\* The operation_failure request of the handler: the machines of the
\* required type that are not failed, read when the failure is caught.
RenegotiationRequestAllOfType(j, m, t) ==
  [job_id |-> j, operation_index |-> op_idx[j], failed_machine_id |-> m,
   current_time |-> t, available_machines |-> <<CurrentOp(j)[1]>>]

RenegotiationRequest(j, m, t) ==
  [job_id |-> j, operation_index |-> op_idx[j], failed_machine_id |-> m,
   current_time |-> t, available_machines |-> Available(CurrentOp(j)[1])]

\* The check finds the machine failed: the operation is aborted with the
\* failure signal.  Without a client, or when the re-negotiation fails, the
\* handler only prints and the for loop goes on.
CnpAbort(j) ==
  /\ IsJob(j, "cnp")
  /\ pc[j] = "check"
  /\ LET t == Head(evq).t
         m == assigned[j]
         duration == CurrentOp(j)[2]
         el == elapsed[j] + next_check(duration, elapsed[j])
     IN  /\ machine_failed[m]
         /\ now' = t
         /\ elapsed' = [elapsed EXCEPT ![j] = el]
         /\ current_job_id' = [current_job_id EXCEPT ![m] = NoJob]
         /\ signal' = FailureSignal(m, j, op_idx[j])
         /\ in_progress' = [in_progress EXCEPT ![m] = @ \ {j}]
         /\ reneg' = [reneg EXCEPT ![j] = IF cnp_client THEN "failed" ELSE "noclient"]
         /\ renegotiation' = IF cnp_client THEN RenegotiationRequest(j, m, t)
                                            ELSE renegotiation
         /\ CnpAdvance(j, m, t, Tail(evq), events)
  /\ UNCHANGED <<cfgvars, crashed, drawvars, jobs, pending_jobs,
                 jobs_in_progress, queue, failvars, statvars, channel, hit,
                 decvars>>

\* The abort with a successful re-negotiation: the handler calls
\* self.process_operation, which CNPJobShopSimulator does not define; the
\* AttributeError leaves the with block (the machine is released) and ends
\* the process, whose failed event is scheduled.
CnpAbortRenegotiated(j) ==
  /\ IsJob(j, "cnp")
  /\ pc[j] = "check"
  /\ cnp_client
  /\ LET t == Head(evq).t
         m == assigned[j]
         duration == CurrentOp(j)[2]
         el == elapsed[j] + next_check(duration, elapsed[j])
         R1 == Release(Res(Tail(evq)), m, t)
     IN  /\ machine_failed[m]
         /\ now' = t
         /\ elapsed' = [elapsed EXCEPT ![j] = el]
         /\ current_job_id' = [current_job_id EXCEPT ![m] = NoJob]
         /\ signal' = FailureSignal(m, j, op_idx[j])
         /\ in_progress' = [in_progress EXCEPT ![m] = @ \ {j}]
         /\ reneg' = [reneg EXCEPT ![j] = "success"]
         /\ renegotiation' = RenegotiationRequest(j, m, t)
         /\ users' = R1.users
         /\ put_queue' = R1.put_queue
         /\ evq' = Schedule(R1.evq, Ev(t, "job", j))
         /\ pc' = [pc EXCEPT ![j] = "raised"]
  /\ UNCHANGED <<cfgvars, crashed, drawvars, jobs, op_idx, pending_jobs,
                 jobs_in_progress, jobs_completed, queue, failvars, statvars,
                 channel, assigned, hit, decvars, events>>

\* Environment.step() meets the failed process event, which nothing waits
\* for: the exception leaves env.run().
CnpCrash(j) ==
  /\ IsJob(j, "cnp")
  /\ pc[j] = "raised"
  /\ now' = Head(evq).t
  /\ evq' = Tail(evq)
  /\ crashed' = TRUE
  /\ UNCHANGED <<cfgvars, drawvars, jobvars, resvars, failvars, statvars,
                 channel, in_progress, cnpvars, decvars, events>>

InitCnp == \E client \in BOOLEAN : InitSim("cnp", "SPT", client)

NextCnp ==
  \/ \E a \in ArrProcs("cnp") : CnpArrival(a)
  \/ \E j \in AllJobIds : CnpNegotiateRetry(j)
  \/ \E j \in AllJobIds : CnpGranted(j)
  \/ \E j \in AllJobIds : CnpPoll(j)
  \/ \E j \in AllJobIds : CnpCheckContinue(j)
  \/ \E j \in AllJobIds : CnpOperationEnd(j)
  \/ \E j \in AllJobIds : CnpAbort(j)
  \/ \E j \in AllJobIds : CnpAbortRenegotiated(j)
  \/ \E j \in AllJobIds : CnpCrash(j)

(***************************************************************************)
(* decide_allow called on its own: any snapshot of a queue, any rule name, *)
(* any reply of the channel.                                               *)
(***************************************************************************)
DecideDueDates == {5, 9}
DecideRules == LocalRules \cup {"FIFO"}

SnapshotJobs ==
  {[job_id |-> i, operations |-> <<<<0, d>>>>, due_date |-> due,
    next_op_duration |-> d] :
     i \in 1 .. MaxJobs, d \in Durations, due \in DecideDueDates}

Snapshots ==
  {q \in UNION {[1 .. n -> SnapshotJobs] : n \in 0 .. MaxQueue} :
     \A a, b \in 1 .. Len(q) : a # b => q[a].job_id # q[b].job_id}

InitDecide ==
  /\ sim = "none"
  /\ scheduling_rule = "SPT"
  /\ cnp_client = FALSE
  /\ failure_budget = 0
  /\ training = FALSE
  /\ mirroring = FALSE
  /\ evq = <<>>
  /\ arr_sched = 0
  /\ fail_sched = 0
  /\ InitRun
  /\ d_in \in [resp : Responses(1 .. MaxJobs), current_job_id : 1 .. MaxJobs,
               queue_jobs : Snapshots, scheduling_rule : DecideRules]
  /\ d_out = "none"
  /\ InitSockets
  /\ InitReplayIdle
  /\ InitRuleIdle
  /\ InitGeneratorIdle

Decide ==
  /\ sim = "none"
  /\ d_out = "none"
  /\ d_out' = IF decide_allow(d_in.resp, d_in.current_job_id, d_in.queue_jobs,
                              d_in.scheduling_rule)
              THEN "true" ELSE "false"
  /\ UNCHANGED <<cfgvars, clockvars, drawvars, jobvars, resvars, failvars,
                 statvars, cnpvars, fbvars, d_in, zmq_socket, cnp_socket, exchanges,
                 rule_in, rule_out, rule_calls, replay, generator, events, channel,
                 in_progress>>

(***************************************************************************)
(* simulator_dynamic.py: the local decision of _process_job on its own,    *)
(* for a queue whose jobs may have no due date (JobSpec.due_date defaults  *)
(* to None, and a queued id that is not tracked gets 'due_date': None).    *)
(***************************************************************************)
DispatchJobs ==
  {[job_id |-> i, operations |-> <<<<0, d>>>>, due_date |-> due,
    next_op_duration |-> d] :
     i \in 1 .. MaxJobs, d \in Durations, due \in DecideDueDates \cup {NoneDue}}

DispatchSnapshots ==
  {q \in UNION {[1 .. n -> DispatchJobs] : n \in 1 .. MaxQueue} :
     \A a, b \in 1 .. Len(q) : a # b => q[a].job_id # q[b].job_id}

InitDispatch ==
  /\ sim = "none"
  /\ scheduling_rule = "SPT"
  /\ cnp_client = FALSE
  /\ failure_budget = 0
  /\ training = FALSE
  /\ mirroring = FALSE
  /\ evq = <<>>
  /\ arr_sched = 0
  /\ fail_sched = 0
  /\ InitRun
  /\ \E q \in DispatchSnapshots, i \in 1 .. MaxQueue, rule \in LocalRules :
       /\ i <= Len(q)
       /\ d_in = [resp |-> RaiseResp, current_job_id |-> q[i].job_id,
                  queue_jobs |-> q, scheduling_rule |-> rule]
  /\ d_out = "none"
  /\ InitSockets
  /\ InitReplayIdle
  /\ InitRuleIdle
  /\ InitGeneratorIdle

Dispatch ==
  /\ sim = "none"
  /\ d_out = "none"
  /\ d_out' = IF LocalDecision(d_in.scheduling_rule, d_in.current_job_id,
                               d_in.queue_jobs)
              THEN "true" ELSE "false"
  /\ UNCHANGED <<cfgvars, clockvars, drawvars, jobvars, resvars, failvars,
                 statvars, cnpvars, fbvars, d_in, zmq_socket, cnp_socket, exchanges,
                 rule_in, rule_out, rule_calls, replay, generator, events, channel,
                 in_progress>>

(***************************************************************************)
(* Two runs of DynamicJobShopSimulator's arrival generator with the same   *)
(* random_seed.  __init__ seeds numpy's generator, from which the arrival  *)
(* process draws its inter-arrival times: the k-th draw is a function of   *)
(* the seed.  generate_job_operations draws from Python's random module,   *)
(* which nothing seeds: its draws are free in each run.                    *)
(***************************************************************************)
Seeds == {42, 43}
Runs == {1, 2}

\* np.random.exponential after np.random.seed(seed): the k-th value drawn.
NumpyExponential(seed, k) == 3 + ((seed + k) % 2)

InitReplay ==
  /\ sim = "none"
  /\ scheduling_rule = "SPT"
  /\ cnp_client = FALSE
  /\ failure_budget = 0
  /\ training = FALSE
  /\ mirroring = FALSE
  /\ evq = <<>>
  /\ arr_sched = 0
  /\ fail_sched = 0
  /\ InitRun
  /\ d_in = [resp |-> RaiseResp, current_job_id |-> NoJob,
             queue_jobs |-> <<>>, scheduling_rule |-> "SPT"]
  /\ d_out = "idle"
  /\ InitSockets
  /\ InitRuleIdle
  /\ InitGeneratorIdle
  /\ \E seed \in Seeds : replay = [seed |-> seed, runs |-> <<(<<>>), (<<>>)>>]

\* arrival_process in run r: the next job of the run.
ReplayArrival(r) ==
  /\ sim = "none"
  /\ replay.seed \in Seeds
  /\ Len(replay.runs[r]) < MaxJobs
  /\ LET generated == replay.runs[r]
         k == Len(generated) + 1
         arrival_time == (IF generated = <<>> THEN 0
                          ELSE generated[Len(generated)].arrival_time)
                         + NumpyExponential(replay.seed, k)
     IN  \E operations \in generate_job_operations :
           replay' = [replay EXCEPT !.runs[r] =
                        Append(@, [job_id |-> k, arrival_time |-> arrival_time,
                                   operations |-> operations,
                                   due_date |-> calculate_due_date(arrival_time,
                                                                   operations)])]
  /\ UNCHANGED <<cfgvars, clockvars, drawvars, jobvars, resvars, failvars,
                 statvars, cnpvars, fbvars, d_in, d_out, zmq_socket, cnp_socket,
                 exchanges, rule_in, rule_out, rule_calls, generator, events,
                 channel, in_progress>>

NextReplay == \E r \in Runs : ReplayArrival(r)

(***************************************************************************)
(* An ArrivalGenerator on its own, under every configuration of its        *)
(* parameters within the bounds, making jobs at the arrival times it is    *)
(* given.  Durations are whole units of 10 ticks.                          *)
(***************************************************************************)
MaxGenMachines == 3
MaxGenOperations == 3
MaxGenerated == 1
GenDurations == {10, 20}
GenArrivalTimes == {0, 3}

\* random.randint(a, b): any whole number of a .. b.
Randint(a, b) == a .. b

\* Variant: the machines are drawn with replacement.
GenerateOperationsWithReplacement(self) ==
  {ops \in UNION {[1 .. Min(num_ops, self.num_machines) ->
                     (0 .. (self.num_machines - 1))
                       \X {d \in GenDurations :
                             d \in Randint(self.min_duration, self.max_duration)}] :
                    num_ops \in Randint(self.min_operations, self.max_operations)} :
     TRUE}

\* generate_job_operations of a generator with the parameters of self:
\* random.sample draws min(num_ops, num_machines) distinct machines.
GenerateOperations(self) ==
  {ops \in UNION {[1 .. Min(num_ops, self.num_machines) ->
                     (0 .. (self.num_machines - 1))
                       \X {d \in GenDurations :
                             d \in Randint(self.min_duration, self.max_duration)}] :
                    num_ops \in Randint(self.min_operations, self.max_operations)} :
     Distinct(ops)}

InitGenerator ==
  /\ sim = "none"
  /\ scheduling_rule = "SPT"
  /\ cnp_client = FALSE
  /\ failure_budget = 0
  /\ training = FALSE
  /\ mirroring = FALSE
  /\ evq = <<>>
  /\ arr_sched = 0
  /\ fail_sched = 0
  /\ InitRun
  /\ d_in = [resp |-> RaiseResp, current_job_id |-> NoJob,
             queue_jobs |-> <<>>, scheduling_rule |-> "SPT"]
  /\ d_out = "idle"
  /\ InitSockets
  /\ InitReplayIdle
  /\ InitRuleIdle
  /\ \E n \in 1 .. MaxGenMachines, lo, hi \in 1 .. MaxGenOperations,
        dlo, dhi \in GenDurations :
       /\ lo <= hi
       /\ dlo <= dhi
       /\ generator = [num_machines |-> n, min_operations |-> lo,
                       max_operations |-> hi, min_duration |-> dlo,
                       max_duration |-> dhi, jobs_generated |-> <<>>]

\* arrival_process: one more job, at arrival time env.now.
GenerateJob ==
  /\ sim = "none"
  /\ generator.num_machines > 0
  /\ Len(generator.jobs_generated) < MaxGenerated
  /\ \E arrival_time \in GenArrivalTimes,
        operations \in GenerateOperations(generator) :
       generator' =
         [generator EXCEPT !.jobs_generated =
            Append(@, [job_id |-> Len(@) + 1, arrival_time |-> arrival_time,
                       operations |-> operations,
                       due_date |-> calculate_due_date(arrival_time, operations)])]
  /\ UNCHANGED <<cfgvars, clockvars, drawvars, jobvars, resvars, failvars,
                 statvars, cnpvars, fbvars, d_in, d_out, zmq_socket, cnp_socket,
                 exchanges, rule_in, rule_out, rule_calls, replay, events,
                 channel, in_progress>>

SpecGenerator == InitGenerator /\ [][GenerateJob]_vars

NextShared ==
  \/ \E f \in AllFailProcs : Failure(f)
  \/ \E f \in AllFailProcs : Repair(f)
  \/ \E m \in Machines : ReleaseEvent(m)

NextDynCommon ==
  \/ \E a \in ArrProcs("dynamic") : DynArrival(a)
  \/ \E j \in AllJobIds : DynRetry(j)
  \/ \E j \in AllJobIds : DynPoll(j)
  \/ \E j \in AllJobIds : DynProcessEnd(j)
  \/ \E j \in AllJobIds : DynOperationEnd(j)

NextLocal ==
  \/ \E j \in AllJobIds : DynGrantLocal(j)
  \/ NextDynCommon
  \/ NextShared

NextJade ==
  \/ \E j \in AllJobIds : DynGrantJade(j)
  \/ \E j \in AllJobIds : DynReply(j)
  \/ NextDynCommon
  \/ NextShared

(***************************************************************************)
(* simulator_static.py: run_simulation and job_process.  The instance is   *)
(* a list of jobs over machines 0 .. k-1 with a due date for every job;    *)
(* apply_rule orders the jobs and one process per job is started in that   *)
(* order.  Job ids are the 0-based indices into jobs_data.                 *)
(***************************************************************************)
StaticDueDates == {30, 50}

StaticOperations ==
  UNION {[1 .. n -> Machines \X Durations] : n \in OperationCounts}

StaticJobsData ==
  {jobs_data \in [1 .. MaxJobs -> StaticOperations] :
     LET used == {m \in Machines : \E i \in 1 .. MaxJobs :
                    \E k \in 1 .. Len(jobs_data[i]) : jobs_data[i][k][1] = m}
     IN  used = 0 .. (Cardinality(used) - 1)}

StaticJobIds == 0 .. (MaxJobs - 1)

\* list.remove: the first occurrence goes.
RemoveFirst(q, j) ==
  IF InSeq(q, j)
  THEN LET i == CHOOSE i \in 1 .. Len(q) :
                  q[i] = j /\ \A k \in 1 .. (i - 1) : q[k] # j
       IN  SubSeq(q, 1, i - 1) \o SubSeq(q, i + 1, Len(q))
  ELSE q

InitStatic ==
  /\ sim = "static"
  /\ cnp_client = FALSE
  /\ failure_budget = 0
  /\ training = FALSE
  /\ mirroring = FALSE
  /\ arr_sched = 0
  /\ fail_sched = 0
  /\ now = 0
  /\ crashed = FALSE
  /\ job_counter = 0
  /\ denials = 0
  /\ \E jobs_data \in StaticJobsData, due_dates \in [StaticJobIds -> StaticDueDates],
        rule \in LocalRules :
       LET ordered_indices == apply_rule(rule, jobs_data, due_dates).ordered
       IN  /\ scheduling_rule = rule
           /\ jobs = [j \in AllJobIds |->
                        IF j \in StaticJobIds
                        THEN [job_id |-> j, arrival_time |-> NoneDue,
                              operations |-> jobs_data[j + 1],
                              due_date |-> due_dates[j]]
                        ELSE NoSpec]
           /\ evq = [i \in 1 .. MaxJobs |-> Ev(0, "job", ordered_indices[i])]
  /\ pc = [j \in AllJobIds |-> "none"]
  /\ op_idx = [j \in AllJobIds |-> 0]
  /\ pending_jobs = <<>>
  /\ jobs_in_progress = {}
  /\ jobs_completed = [j \in {} |-> 0]
  /\ queue = [m \in Machines |-> <<>>]
  /\ users = [m \in Machines |-> NoJob]
  /\ put_queue = [m \in Machines |-> <<>>]
  /\ machine_failed = [m \in Machines |-> FALSE]
  /\ fproc = [f \in AllFailProcs |->
                [st |-> "up", failure_time |-> 0, repair_duration |-> 0]]
  /\ failure_events = <<>>
  /\ events = <<>>
  /\ num_operations = [m \in Machines |-> 0]
  /\ total_processing_time = [m \in Machines |-> 0]
  /\ channel = NoChannel
  /\ in_progress = [m \in Machines |-> {}]
  /\ assigned = [j \in AllJobIds |-> NoJob]
  /\ elapsed = [j \in AllJobIds |-> 0]
  /\ current_job_id = [m \in Machines |-> NoJob]
  /\ signal = NoSignal
  /\ hit = [m \in Machines |-> FALSE]
  /\ reneg = [j \in AllJobIds |-> "none"]
  /\ renegotiation = NoRequest
  /\ decision = [j \in AllJobIds |-> NoDecision]
  /\ feedbacks = <<>>
  /\ delivery_failures = 0
  /\ InitDecideIdle

\* The job's process starts, or goes on to its next operation, at time t
\* with the resources R: the job joins the queue and requests the machine.
StaticEnqueue(j, m, R, t) ==
  LET R1 == Request(R, m, j, t)
  IN  /\ queue' = [queue EXCEPT ![m] = Append(@, j)]
      /\ users' = R1.users
      /\ put_queue' = R1.put_queue
      /\ evq' = R1.evq
      /\ pc' = [pc EXCEPT ![j] = "req"]

StaticStart(j) ==
  /\ IsJob(j, "static")
  /\ pc[j] = "none"
  /\ LET t == Head(evq).t
     IN  /\ now' = t
         /\ jobs' = [jobs EXCEPT ![j].arrival_time = t]
         /\ StaticEnqueue(j, CurrentOp(j)[1], Res(Tail(evq)), t)
  /\ UNCHANGED <<cfgvars, crashed, drawvars, op_idx, pending_jobs,
                 jobs_in_progress, jobs_completed, failvars, statvars,
                 channel, in_progress, cnpvars, decvars, events>>

\* The request is granted: the job leaves the queue, "start" is logged and
\* machine.process is started.
StaticGrant(j) ==
  /\ IsJob(j, "static")
  /\ pc[j] = "req"
  /\ LET t == Head(evq).t
         m == CurrentOp(j)[1]
     IN  /\ now' = t
         /\ queue' = [queue EXCEPT ![m] = RemoveFirst(@, j)]
         /\ events' = Append(events, SimEvent(t, "start", j, m, 0))
         /\ evq' = Schedule(Tail(evq), Ev(t + CurrentOp(j)[2], "job", j))
         /\ pc' = [pc EXCEPT ![j] = "run"]
  /\ UNCHANGED <<cfgvars, crashed, drawvars, jobs, op_idx, pending_jobs,
                 jobs_in_progress, jobs_completed, users, put_queue, failvars,
                 statvars, channel, in_progress, cnpvars, decvars>>

\* Machine.process returns: its process event resumes job_process.
StaticProcessEnd(j) ==
  /\ IsJob(j, "static")
  /\ pc[j] = "run"
  /\ LET t == Head(evq).t
     IN  /\ now' = t
         /\ evq' = Schedule(Tail(evq), Ev(t, "job", j))
         /\ pc' = [pc EXCEPT ![j] = "procdone"]
  /\ UNCHANGED <<cfgvars, crashed, drawvars, jobs, op_idx, pending_jobs,
                 jobs_in_progress, jobs_completed, resvars, failvars, statvars,
                 channel, in_progress, cnpvars, decvars, events>>

\* "finish" is logged, the with block releases the machine, and the job
\* goes on to its next operation or sets its completion_time.
StaticFinish(j) ==
  /\ IsJob(j, "static")
  /\ pc[j] = "procdone"
  /\ LET t == Head(evq).t
         m == CurrentOp(j)[1]
         R1 == Release(Res(Tail(evq)), m, t)
     IN  /\ now' = t
         /\ events' = Append(events, SimEvent(t, "finish", j, m, 0))
         /\ IF op_idx[j] + 1 < Len(jobs[j].operations)
            THEN /\ op_idx' = [op_idx EXCEPT ![j] = @ + 1]
                 /\ StaticEnqueue(j, jobs[j].operations[op_idx[j] + 2][1], R1, t)
                 /\ UNCHANGED jobs_completed
            ELSE /\ users' = R1.users
                 /\ put_queue' = R1.put_queue
                 /\ evq' = R1.evq
                 /\ pc' = [pc EXCEPT ![j] = "done"]
                 /\ jobs_completed' =
                      (j :> [job_id |-> j, completion_time |-> t]) @@ jobs_completed
                 /\ UNCHANGED <<op_idx, queue>>
  /\ UNCHANGED <<cfgvars, crashed, drawvars, jobs, pending_jobs,
                 jobs_in_progress, failvars, statvars, channel, in_progress,
                 cnpvars, decvars>>

NextStatic ==
  \/ \E j \in AllJobIds :
       StaticStart(j) \/ StaticGrant(j) \/ StaticProcessEnd(j) \/ StaticFinish(j)
  \/ \E m \in Machines : ReleaseEvent(m)

(***************************************************************************)
(* scheduling_rules.py on its own: apply_rule called once on a list of     *)
(* jobs of one machine with a due date for every job.                      *)
(***************************************************************************)
RuleDurations == {1, 2, 3}
RuleDueDates == {1, 5, 10}

RuleOperations ==
  UNION {[1 .. n -> {0} \X RuleDurations] : n \in OperationCounts}

InitRules ==
  /\ sim = "none"
  /\ scheduling_rule = "SPT"
  /\ cnp_client = FALSE
  /\ failure_budget = 0
  /\ training = FALSE
  /\ mirroring = FALSE
  /\ evq = <<>>
  /\ arr_sched = 0
  /\ fail_sched = 0
  /\ InitRun
  /\ d_in = [resp |-> RaiseResp, current_job_id |-> NoJob,
             queue_jobs |-> <<>>, scheduling_rule |-> "SPT"]
  /\ d_out = "none"
  /\ InitSockets
  /\ InitReplayIdle
  /\ InitGeneratorIdle
  /\ \E n \in 0 .. MaxRuleJobs :
       \E jobs_data \in [1 .. n -> RuleOperations],
          due_dates \in [0 .. (n - 1) -> RuleDueDates],
          rule_name \in LocalRules :
         rule_in = [rule_name |-> rule_name, jobs_data |-> jobs_data,
                    due_dates |-> due_dates]
  /\ rule_out = NoRuleResult
  /\ rule_calls = <<>>

\* Variant: the rule sorts the caller's job list in place.
ArgsAfterSortedInPlace(call, ordered) ==
  [call EXCEPT !.jobs_data = [p \in 1 .. Len(ordered) |->
                                call.jobs_data[ordered[p] + 1]]]

\* The caller's arguments after the call: the rules build job_indices and
\* job_times anew and sorted() returns a new list.
ArgsAfter(call, ordered) == call

\* One call of apply_rule on the caller's jobs_data and due_dates.
ApplyRule ==
  /\ sim = "none"
  /\ rule_in.rule_name # "none"
  /\ Len(rule_calls) < MaxRuleCalls
  /\ LET r == apply_rule(rule_in.rule_name, rule_in.jobs_data, rule_in.due_dates)
     IN  /\ rule_out' = [called |-> TRUE, ok |-> r.ok, ordered |-> r.ordered]
         /\ rule_calls' = Append(rule_calls, [args |-> rule_in, ok |-> r.ok,
                                              ordered |-> r.ordered])
         /\ rule_in' = ArgsAfter(rule_in, r.ordered)
  /\ UNCHANGED <<cfgvars, clockvars, drawvars, jobvars, resvars, failvars,
                 statvars, cnpvars, fbvars, d_in, d_out, zmq_socket, cnp_socket,
                 exchanges, replay, generator, events, channel, in_progress>>

(***************************************************************************)
(* The two ZeroMQ clients on their own.  A REQ socket alternates send and  *)
(* receive: a send on a socket that still awaits a reply raises.  What the *)
(* network and the server do to an exchange is drawn from Outcomes.        *)
(***************************************************************************)
Outcomes == {"ok", "send_error", "recv_timeout", "bad_reply"}

\* send followed by receive on a REQ socket in the given state.
ReqExchange(state, outcome) ==
  IF state = "sent" THEN [state |-> "sent", status |-> "efsm"]
  ELSE IF outcome = "send_error" THEN [state |-> "idle", status |-> "send_error"]
  ELSE IF outcome = "recv_timeout" THEN [state |-> "sent", status |-> "timeout"]
  ELSE IF outcome = "bad_reply" THEN [state |-> "idle", status |-> "bad_reply"]
  ELSE [state |-> "idle", status |-> "ok"]

\* ZmqClient.get_socket
get_socket(state) == IF state = "none" THEN "idle" ELSE state

\* Variant: the socket is kept after a failed exchange.
reset_socket_keep(state) == state

\* ZmqClient._reset_socket
reset_socket(state) == "none"

Exchange(client, fresh, outcome, status) ==
  [client |-> client, fresh |-> fresh, outcome |-> outcome, status |-> status]

\* ZmqClient.send_request
ZmqSendRequest ==
  /\ sim = "none"
  /\ d_out = "idle"
  /\ Len(exchanges) < MaxExchanges
  /\ \E outcome \in Outcomes :
       LET r == ReqExchange(get_socket(zmq_socket), outcome)
       IN  /\ zmq_socket' = IF r.status = "ok" THEN r.state
                            ELSE reset_socket(r.state)
           /\ exchanges' = Append(exchanges,
                                  Exchange("zmq", zmq_socket = "none", outcome, r.status))
  /\ UNCHANGED <<cfgvars, clockvars, drawvars, jobvars, resvars, failvars,
                 statvars, cnpvars, fbvars, d_in, d_out, cnp_socket, rule_in, rule_out,
                 rule_calls, replay, generator, events, channel, in_progress>>

\* JADECNPClient: any of its requests (create_order_agent,
\* request_machine_assignment, notify_operation_start, ...): send_json and
\* recv_json on self.socket, every exception caught.
CnpClientRequest ==
  /\ sim = "none"
  /\ d_out = "idle"
  /\ Len(exchanges) < MaxExchanges
  /\ \E outcome \in Outcomes :
       LET r == ReqExchange(cnp_socket, outcome)
       IN  /\ cnp_socket' = r.state
           /\ exchanges' = Append(exchanges,
                                  Exchange("cnp", exchanges = <<>>, outcome, r.status))
  /\ UNCHANGED <<cfgvars, clockvars, drawvars, jobvars, resvars, failvars,
                 statvars, cnpvars, fbvars, d_in, d_out, zmq_socket, rule_in, rule_out,
                 rule_calls, replay, generator, events, channel, in_progress>>

InitClients ==
  /\ sim = "none"
  /\ scheduling_rule = "SPT"
  /\ cnp_client = TRUE
  /\ failure_budget = 0
  /\ training = FALSE
  /\ mirroring = FALSE
  /\ evq = <<>>
  /\ arr_sched = 0
  /\ fail_sched = 0
  /\ InitRun
  /\ d_in = [resp |-> RaiseResp, current_job_id |-> NoJob,
             queue_jobs |-> <<>>, scheduling_rule |-> "SPT"]
  /\ d_out = "idle"
  /\ InitSockets
  /\ InitReplayIdle
  /\ InitRuleIdle
  /\ InitGeneratorIdle

NextClients == ZmqSendRequest \/ CnpClientRequest

(***************************************************************************)
(* The failure processes of a DynamicJobShopSimulator that is constructed  *)
(* and started with run(), with no job arriving: __init__ and run() each   *)
(* start one failure process per machine.                                  *)
(***************************************************************************)
FirstFailureTimes == TimeToFailure \cup {17}

CycleDraws ==
  LET procs == InitProcs("dynamic")
  IN  {d \in [1 .. Len(procs) -> FirstFailureTimes \cup {Never}] :
         /\ \A i \in 1 .. Len(procs) : procs[i].k = "arr" => d[i] = Never
         /\ Cardinality({i \in 1 .. Len(procs) : d[i] # Never}) <= MaxCycleFailures}

InitCycles ==
  /\ sim = "dynamic"
  /\ scheduling_rule = "SPT"
  /\ cnp_client = FALSE
  /\ failure_budget = MaxCycleFailures
  /\ training = FALSE
  /\ mirroring = FALSE
  /\ \E d \in CycleDraws :
       /\ evq = InitQueue("dynamic", d)
       /\ arr_sched = 0
       /\ fail_sched = Armed("dynamic", d, "fail")
  /\ InitRun
  /\ InitDecideIdle

NextCycles ==
  \/ \E f \in AllFailProcs : Failure(f)
  \/ \E f \in AllFailProcs : Repair(f)

(***************************************************************************)
(* The specifications: both simulators (Spec), the dynamic simulator with  *)
(* a local rule and with the delegated rule, the CNP simulator, and the    *)
(* local-rule simulator with the event loop always taking its next event.  *)
(***************************************************************************)
Init == InitLocal \/ InitJade \/ InitCnp

Next ==
  \/ \E j \in AllJobIds : DynGrantLocal(j)
  \/ \E j \in AllJobIds : DynGrantJade(j)
  \/ \E j \in AllJobIds : DynReply(j)
  \/ NextDynCommon
  \/ NextCnp
  \/ NextShared

Spec == Init /\ [][Next]_vars

SpecLocal == InitLocal /\ [][NextLocal]_vars

SpecJade == InitJade /\ [][NextJade]_vars

SpecCnp == InitCnp /\ [][NextCnp \/ NextShared]_vars

FairLocal == InitLocal /\ [][NextLocal]_vars /\ WF_vars(NextLocal)

SpecDecide == InitDecide /\ [][Decide]_vars

SpecCycles == InitCycles /\ [][NextCycles]_vars

SpecClients == InitClients /\ [][NextClients]_vars

SpecStatic == InitStatic /\ [][NextStatic]_vars

\* env.run() of the static simulator goes on as long as there is an event.
FairStatic == InitStatic /\ [][NextStatic]_vars /\ WF_vars(NextStatic)

SpecRules == InitRules /\ [][ApplyRule]_vars

SpecDispatch == InitDispatch /\ [][Dispatch]_vars

SpecReplay == InitReplay /\ [][NextReplay]_vars

\* The dynamic simulator in delegated mode with training on or off, and
\* under a local rule with training on.
InitFeedback ==
  \/ \E train \in BOOLEAN : InitSimWith("dynamic", "JADE", FALSE, train, FALSE)
  \/ InitSimWith("dynamic", "SPT", FALSE, TRUE, FALSE)

NextFeedback ==
  \/ \E j \in AllJobIds : DynGrantLocal(j)
  \/ NextJade

SpecFeedback == InitFeedback /\ [][NextFeedback]_vars

\* The dynamic simulator with mirroring on: delegated with training on, and
\* under a local rule.
InitDelivery ==
  \/ InitSimWith("dynamic", "JADE", FALSE, TRUE, TRUE)
  \/ InitSimWith("dynamic", "SPT", FALSE, FALSE, TRUE)

SpecDelivery == InitDelivery /\ [][NextFeedback]_vars

SpecUnknownRule == InitUnknownRule /\ [][NextLocal]_vars

(***************************************************************************)
(* main_comparison.py: run_phase2_batch.  The jobs of the instance are     *)
(* given arrival times spread over 80% of the run, a dynamic simulator is  *)
(* built with arrival_rate = 0.0, and one _process_job per job is started  *)
(* before env.run.  The processes are initialised at time 0 in the order   *)
(* in which they were created: the arrival process and the failure         *)
(* processes of __init__, the jobs, the failure processes of               *)
(* start_failure_simulation.  The arrival process computes                 *)
(* 1.0 / arrival_rate in its first step and fails; the failure is the      *)
(* first ordinary event of time 0, and env.run raises it.                  *)
(***************************************************************************)
BatchTotalTime == 100

\* np.linspace(0, total_simulation_time * 0.8, num_jobs)[i]
Linspace(i, num_jobs) ==
  IF num_jobs = 1 THEN 0
  ELSE (i * ((BatchTotalTime * 8) \div 10)) \div (num_jobs - 1)

\* convert_taillard_to_staggered_arrivals, uniform distribution: job jid.
StaggeredArrival(jid, operations, original_due) ==
  [job_id |-> jid, arrival_time |-> Linspace(jid, MaxJobs),
   operations |-> operations,
   due_date |-> Linspace(jid, MaxJobs) + original_due]

InitBatch ==
  /\ sim = "batch"
  /\ cnp_client = FALSE
  /\ failure_budget = MaxFailures
  /\ training = FALSE
  /\ mirroring = FALSE
  /\ arr_sched = 0
  /\ fail_sched = 0
  /\ now = 0
  /\ crashed = FALSE
  /\ job_counter = 0
  /\ denials = 0
  /\ \E jobs_data \in StaticJobsData, due_dates \in [StaticJobIds -> StaticDueDates],
        rule \in LocalRules :
       /\ scheduling_rule = rule
       /\ jobs = [j \in AllJobIds |->
                    IF j \in StaticJobIds
                    THEN StaggeredArrival(j, jobs_data[j + 1], due_dates[j])
                    ELSE NoSpec]
  /\ pc = [j \in AllJobIds |-> "none"]
  /\ op_idx = [j \in AllJobIds |-> 0]
  /\ pending_jobs = <<>>
  /\ jobs_in_progress = {}
  /\ jobs_completed = [j \in {} |-> 0]
  /\ queue = [m \in Machines |-> <<>>]
  /\ users = [m \in Machines |-> NoJob]
  /\ put_queue = [m \in Machines |-> <<>>]
  /\ machine_failed = [m \in Machines |-> FALSE]
  /\ fproc = [f \in AllFailProcs |->
                [st |-> "up", failure_time |-> 0, repair_duration |-> 0]]
  /\ failure_events = <<>>
  /\ events = <<>>
  /\ num_operations = [m \in Machines |-> 0]
  /\ total_processing_time = [m \in Machines |-> 0]
  /\ channel = NoChannel
  /\ in_progress = [m \in Machines |-> {}]
  /\ assigned = [j \in AllJobIds |-> NoJob]
  /\ elapsed = [j \in AllJobIds |-> 0]
  /\ current_job_id = [m \in Machines |-> NoJob]
  /\ signal = NoSignal
  /\ hit = [m \in Machines |-> FALSE]
  /\ reneg = [j \in AllJobIds |-> "none"]
  /\ renegotiation = NoRequest
  /\ decision = [j \in AllJobIds |-> NoDecision]
  /\ feedbacks = <<>>
  /\ delivery_failures = 0
  /\ InitDecideIdle
  /\ evq = <<Ev(0, "init_arr", 0)>>
           \o [i \in 1 .. NumMachines |-> Ev(0, "init_fail", i - 1)]
           \o [i \in 1 .. MaxJobs |-> Ev(0, "init_job", i - 1)]
           \o [i \in 1 .. NumMachines |-> Ev(0, "init_fail", NumMachines + i - 1)]

\* arrival_process is initialised: 1.0 / 0.0 raises ZeroDivisionError and
\* the failed process is scheduled as an event of time 0.
BatchArrivalInit ==
  /\ Ready("init_arr")
  /\ sim = "batch"
  /\ evq' = Schedule(Tail(evq), Ev(0, "failed", Head(evq).id))
  /\ UNCHANGED <<cfgvars, now, crashed, drawvars, jobvars, resvars, failvars,
                 statvars, cnpvars, decvars, events, channel, in_progress>>

\* failure_process is initialised: it draws the time to its first failure.
BatchFailureInit(f) ==
  /\ Ready("init_fail")
  /\ sim = "batch"
  /\ Head(evq).id = f
  /\ \E time_to_failure \in TimeToFailure \cup {Never} :
       /\ time_to_failure # Never => fail_sched < failure_budget
       /\ fail_sched' = IF time_to_failure = Never THEN fail_sched
                        ELSE fail_sched + 1
       /\ evq' = IF time_to_failure = Never THEN Tail(evq)
                 ELSE Schedule(Tail(evq), Ev(time_to_failure, "fail", f))
  /\ UNCHANGED <<cfgvars, now, crashed, job_counter, arr_sched, denials,
                 jobvars, resvars, failvars, statvars, cnpvars, decvars,
                 events, channel, in_progress>>

\* _process_job(job) is initialised, at time 0 whatever job.arrival_time is:
\* the job is tracked, joins the queue of its first machine and requests it.
BatchJobInit(j) ==
  /\ Ready("init_job")
  /\ sim = "batch"
  /\ Head(evq).id = j
  /\ LET t == Head(evq).t
         machine_id == jobs[j].operations[1][1]
         R == Request(Res(Tail(evq)), machine_id, j, t)
     IN  /\ jobs_in_progress' = jobs_in_progress \cup {j}
         /\ queue' = [queue EXCEPT ![machine_id] = AppendIfAbsent(@, j)]
         /\ users' = R.users
         /\ put_queue' = R.put_queue
         /\ evq' = R.evq
         /\ pc' = [pc EXCEPT ![j] = "req"]
  /\ UNCHANGED <<cfgvars, now, crashed, drawvars, jobs, op_idx, pending_jobs,
                 jobs_completed, failvars, statvars, cnpvars, decvars, events,
                 channel, in_progress>>

\* The failed arrival process is the next event: env.run raises.
BatchAbort ==
  /\ Ready("failed")
  /\ sim = "batch"
  /\ crashed' = TRUE
  /\ evq' = Tail(evq)
  /\ UNCHANGED <<cfgvars, now, drawvars, jobvars, resvars, failvars, statvars,
                 cnpvars, decvars, events, channel, in_progress>>

NextBatch ==
  \/ BatchArrivalInit
  \/ \E f \in AllFailProcs : BatchFailureInit(f)
  \/ \E j \in StaticJobIds : BatchJobInit(j)
  \/ BatchAbort

SpecBatch == InitBatch /\ [][NextBatch]_vars

\* The simulators that keep a wait queue per machine.
InitQueues == InitLocal \/ InitJade \/ InitStatic

NextQueues == NextLocal \/ NextJade \/ NextStatic

SpecQueues == InitQueues /\ [][NextQueues]_vars

(***************************************************************************)
(* Properties.                                                             *)
(***************************************************************************)
DynJobIds == 1 .. MaxJobs

\* The events of this step's log entries.
Logged(event_type, j, m) ==
  \E i \in (Len(events) + 1) .. Len(events') :
    /\ events'[i].event_type = event_type
    /\ events'[i].job_id = j
    /\ events'[i].machine_id = m

\* C1: in both simulators at most one job's operation is in progress on a
\* machine at any instant: between a job's START on m and its END or its
\* abort no other job starts on m.
C1_MutualExclusion ==
  \A m \in Machines : Cardinality(in_progress[m]) <= 1

\* A job runs on a machine while another job waits for the same machine.
C1_Witness ==
  \E m \in Machines : in_progress[m] # {} /\ put_queue[m] # <<>>

\* C2: every job the dynamic simulator records in jobs_completed has
\* completion_time >= arrival_time + the sum of its operations' durations.
C2_CompletionBound ==
  sim = "dynamic" =>
    \A j \in DOMAIN jobs_completed :
      jobs_completed[j].completion_time >=
        jobs_completed[j].arrival_time + SumDurations(jobs[j].operations)

\* A job completed later than its bare processing time: it queued, was
\* denied, or waited for a repair.
C2_Witness ==
  /\ sim = "dynamic"
  /\ \E j \in DOMAIN jobs_completed :
       jobs_completed[j].completion_time >
         jobs_completed[j].arrival_time + SumDurations(jobs[j].operations)

JobTrace(j) == SelectSeq(events, LAMBDA e : e.job_id = j)

ExpectedTrace(j) ==
  LET ops == jobs[j].operations
  IN  <<[event_type |-> "arrival", machine_id |-> NoJob]>> \o
      [i \in 1 .. (2 * Len(ops)) |->
         [event_type |-> IF i % 2 = 1 THEN "start" ELSE "end",
          machine_id |-> ops[(i + 1) \div 2][1]]] \o
      <<[event_type |-> "complete", machine_id |-> NoJob]>>

\* C3: in the dynamic simulator the log of a job is at every instant a
\* prefix of ARRIVAL, START and END of operation 1 on its machine, START and
\* END of operation 2, ..., COMPLETE, in non-decreasing time: operations run
\* in list order, each is started once, and COMPLETE follows the last END.
C3_OperationsInOrder ==
  sim = "dynamic" =>
    \A j \in DynJobIds :
      LET tr == JobTrace(j)
          ex == ExpectedTrace(j)
      IN  /\ Len(tr) <= Len(ex)
          /\ \A i \in 1 .. Len(tr) :
               /\ tr[i].event_type = ex[i].event_type
               /\ tr[i].machine_id = ex[i].machine_id
               /\ i > 1 => tr[i - 1].time <= tr[i].time
          /\ (pc[j] = "done") <=> (tr # <<>> /\ Len(tr) = Len(ex))

\* A job of two operations is completed.
C3_Witness ==
  /\ sim = "dynamic"
  /\ \E j \in DynJobIds : pc[j] = "done" /\ Len(jobs[j].operations) = 2

RuleKey(rule, j) ==
  IF rule = "EDD" THEN jobs[j].due_date ELSE SumDurations(jobs[j].operations)

\* Job j is first among the jobs of q: no other job has a better key (smaller
\* for SPT and EDD, larger for LPT), and of the jobs with its key it is the
\* earliest in q.
RankedFirst(rule, j, q) ==
  /\ InSeq(q, j)
  /\ \A i \in 1 .. Len(q) :
       q[i] # j =>
         \/ IF rule = "LPT" THEN RuleKey(rule, j) > RuleKey(rule, q[i])
                            ELSE RuleKey(rule, j) < RuleKey(rule, q[i])
         \/ RuleKey(rule, j) = RuleKey(rule, q[i]) /\ IndexOf(q, j) < i

\* C4: under a local rule every START on machine m is by the job the rule
\* ranks first among the jobs in m's wait queue at the instant of admission.
C4_StartIsRankedFirst ==
  [][\A j \in DynJobIds, m \in Machines :
       (sim = "dynamic" /\ scheduling_rule \in LocalRules /\ Logged("start", j, m))
         => RankedFirst(scheduling_rule, j, queue[m])]_vars

\* A job started while another job was waiting in the machine's queue.
C4_Witness ==
  /\ sim = "dynamic"
  /\ scheduling_rule \in LocalRules
  /\ \E i \in 1 .. Len(events) :
       events[i].event_type = "start" /\ events[i].queue_length >= 1

\* C5: with finitely many arrivals, a local rule and every failure repaired,
\* the run reaches a point from which every job that arrived has completed
\* all its operations and no job waits in a machine's queue: no job is
\* denied for ever.
C5_NoLivelock ==
  <>[](\A j \in DynJobIds :
         /\ pc[j] \in {"none", "done"}
         /\ pc[j] = "done" => j \in DOMAIN jobs_completed
         /\ \A m \in Machines : ~InSeq(queue[m], j))

\* A job was denied and waits out the backoff while the machine it wants is
\* taken by another job.
C5_Witness ==
  \E j \in DynJobIds :
    /\ pc[j] = "backoff"
    /\ \E m \in Machines : InSeq(queue[m], j) /\ Len(queue[m]) >= 2

\* The first job of the order the rule gives for the snapshot, operations and
\* due dates.
FirstUnderRule(rule, queue_jobs) ==
  JobIdsOf(queue_jobs)[
    apply_rule(rule, JobsDataOf(queue_jobs), DueDatesOf(queue_jobs)).ordered[1] + 1]

\* C6: when the request raises, decide_allow returns True exactly when the
\* job is the first of the order the configured rule (SPT, EDD, LPT) gives
\* for the same snapshot, operations and due dates.
C6_FallbackFollowsRule ==
  (/\ d_out # "none"
   /\ d_in.resp.kind = "raise"
   /\ d_in.scheduling_rule \in LocalRules
   /\ d_in.queue_jobs # <<>>)
    => ((d_out = "true") <=>
          (FirstUnderRule(d_in.scheduling_rule, d_in.queue_jobs) = d_in.current_job_id))

FallbackReply(resp) ==
  \/ resp.kind \in {"raise", "nondict"}
  \/ resp.kind = "dict" /\ resp.allow = "absent" /\ resp.selected_job = AbsentSel

\* C7: in delegated mode, when the request raises or times out, or the reply
\* is malformed or has neither 'allow' nor 'selected_job', the requesting job
\* is admitted only if SPT ranks it first in the machine's queue.
C7_FailedRequestFallsBackToSPT ==
  [][\A j \in DynJobIds, m \in Machines :
       (/\ sim = "dynamic"
        /\ channel.job = j
        /\ FallbackReply(channel.resp)
        /\ Logged("start", j, m))
         => RankedFirst("SPT", j, queue[m])]_vars

CheckStep(j) == IsJob(j, "cnp") /\ pc[j] = "check"

\* C8: every step of a CNP operation's run advances elapsed by
\* min(1, duration/10), at most to the duration, and looks at the failed
\* flag, the last step (elapsed = duration) included; when the machine failed
\* during the run it is still failed at that check, the operation is aborted
\* there, no END is logged, num_operations is unchanged and the operation is
\* not taken up again.
C8_AbortAtFirstCheck ==
  /\ [](\A j \in AllJobIds :
          (sim = "cnp" /\ pc[j] = "check" /\ hit[assigned[j]])
            => machine_failed[assigned[j]])
  /\ [][\A j \in AllJobIds :
          CheckStep(j) =>
            LET m == assigned[j]
                duration == jobs[j].operations[op_idx[j] + 1][2]
                interval == IF duration \div CheckDivisor < MaxCheckInterval
                            THEN duration \div CheckDivisor ELSE MaxCheckInterval
            IN  /\ elapsed'[j] = IF elapsed[j] + interval < duration
                                 THEN elapsed[j] + interval ELSE duration
                /\ machine_failed[m] =>
                     /\ ~Logged("end", j, m)
                     /\ num_operations' = num_operations
                     /\ current_job_id'[m] = NoJob
                     /\ j \notin in_progress'[m]
                     /\ pc'[j] # "check"
                     /\ pc'[j] \in {"raised", "done"} \/ op_idx'[j] = op_idx[j] + 1
                /\ (~machine_failed[m] /\ elapsed'[j] = duration) =>
                     Logged("end", j, m)]_vars

\* An operation was aborted at its last check, elapsed = duration.
C8_Witness ==
  /\ sim = "cnp"
  /\ signal # NoSignal
  /\ elapsed[signal.job_id] =
       jobs[signal.job_id].operations[signal.operation_index + 1][2]
  /\ num_operations[signal.machine_id] = 0

C10_RetryAfterRenegotiation ==
  \A j \in AllJobIds : reneg[j] = "success" => ~crashed

\* C11: in the CNP simulator a job whose operation was aborted and not
\* re-assigned (the authority gave no assignment, or there is no client) ends
\* there: none of its later operations is started, it is never recorded as
\* completed and gets no COMPLETE event.
C11_AbortedJobEnds ==
  [][\A j \in AllJobIds :
       (sim = "cnp" /\ reneg[j] \in {"failed", "noclient"}) =>
         /\ \A m \in Machines : ~Logged("start", j, m)
         /\ ~Logged("complete", j, NoJob)
         /\ j \notin DOMAIN jobs_completed']_vars

\* The time of the pending event of job j's process.
JobEventTime(q, j) ==
  q[CHOOSE i \in 1 .. Len(q) : q[i].k = "job" /\ q[i].id = j].t

HasJobEvent(q, j) == \E i \in 1 .. Len(q) : q[i].k = "job" /\ q[i].id = j

\* C12: in DynamicMachine.process an operation polls every 0.1 while the
\* machine is failed; its run never begins at an instant when the machine is
\* marked failed, and once begun it ends exactly duration later, whatever
\* happens to the machine in between.
C12_SimpleModeRun ==
  [][\A j \in DynJobIds :
       sim = "dynamic" =>
         LET m == CurrentOp(j)[1]
             duration == CurrentOp(j)[2]
         IN  /\ (pc[j] # "run" /\ pc'[j] = "run") =>
                  /\ ~machine_failed'[m]
                  /\ HasJobEvent(evq', j)
                  /\ JobEventTime(evq', j) = now' + duration
             /\ (pc[j] # "poll" /\ pc'[j] = "poll") =>
                  /\ machine_failed'[m]
                  /\ JobEventTime(evq', j) = now' + FailPoll
             /\ (pc[j] = "poll" /\ pc'[j] = "poll" /\ JobEventTime(evq', j) # JobEventTime(evq, j)) =>
                  /\ machine_failed'[m]
                  /\ now' = JobEventTime(evq, j)
                  /\ JobEventTime(evq', j) = now' + FailPoll
             /\ (pc[j] = "run" /\ pc'[j] = "run") =>
                  JobEventTime(evq', j) = JobEventTime(evq, j)
             /\ (pc[j] = "run" /\ pc'[j] # "run") =>
                  /\ now' = JobEventTime(evq, j)
                  /\ pc'[j] = "procdone"]_vars

\* A machine is marked failed while an operation runs on it.
C12_Witness ==
  /\ sim = "dynamic"
  /\ \E j \in DynJobIds :
       /\ pc[j] = "run"
       /\ machine_failed[CurrentOp(j)[1]]
       /\ JobEventTime(evq, j) > now

\* C13: in both simulators no START is recorded for a machine while it is
\* marked failed: the requester stays blocked until the repair.
C13_NoStartWhileFailed ==
  [][\A j \in AllJobIds, m \in Machines :
       Logged("start", j, m) => ~machine_failed[m]]_vars

FailureLog(m) ==
  SelectSeq(events, LAMBDA e : e.machine_id = m /\ e.job_id = NoJob /\
                               e.event_type \in {"failure", "repair_end"})

\* C14: every machine of the dynamic simulator has one failure/repair cycle:
\* its failure and repair notifications alternate, beginning with a failure,
\* and the machine is marked failed from a failure until the repair of that
\* failure.
C14_OneCyclePerMachine ==
  sim = "dynamic" =>
    \A m \in Machines :
      /\ \A i \in 1 .. Len(FailureLog(m)) :
           FailureLog(m)[i].event_type =
             (IF i % 2 = 1 THEN "failure" ELSE "repair_end")
      /\ (\E f \in AllFailProcs : MachineOf(f) = m /\ fproc[f].st = "repair")
           => machine_failed[m]

\* C15: after an exchange of ZmqClient.send_request that times out or raises
\* the shared socket is closed and discarded, so the next request goes out
\* on a fresh socket and no socket is ever asked to send while it awaits a
\* reply, over any sequence of successful and failed exchanges.
C15_ZmqSocketReset ==
  /\ zmq_socket # "sent"
  /\ \A i \in 1 .. Len(exchanges) :
       exchanges[i].client = "zmq" =>
         /\ exchanges[i].status # "efsm"
         /\ (exchanges[i].outcome = "ok") <=> (exchanges[i].status = "ok")
         /\ \A k \in 1 .. (i - 1) :
              (/\ exchanges[k].client = "zmq"
               /\ exchanges[k].status # "ok"
               /\ \A n \in (k + 1) .. (i - 1) : exchanges[n].client # "zmq")
                => exchanges[i].fresh

\* A request of ZmqClient succeeded after one that timed out.
C15_Witness ==
  \E k, i \in 1 .. Len(exchanges) :
    /\ k < i
    /\ exchanges[k].client = "zmq" /\ exchanges[k].status = "timeout"
    /\ exchanges[i].client = "zmq" /\ exchanges[i].status = "ok"

\* C16: a request of JADECNPClient that follows a failed or timed-out one is
\* still sent and answered: when the server answers it in time it succeeds.
C16_CnpClientRecovers ==
  \A i \in 1 .. Len(exchanges) :
    (exchanges[i].client = "cnp" /\ exchanges[i].outcome = "ok")
      => exchanges[i].status = "ok"

\* C17: in the static and the dynamic simulator no machine's wait queue
\* holds a job id twice, also while a denied job retries.
C17_QueueHasNoDuplicates ==
  \A m \in Machines :
    \A a, b \in 1 .. Len(queue[m]) : a # b => queue[m][a] # queue[m][b]

\* The only job that has arrived was denied, has asked for the machine
\* again and is in its queue once.
C17_Witness ==
  /\ sim = "dynamic"
  /\ denials > 0
  /\ \E j \in AllJobIds, m \in Machines :
       /\ pc[j] = "req"
       /\ InSeq(queue[m], j)
       /\ \A k \in AllJobIds \ {j} : pc[k] = "none"

EventsOf(event_type, j) ==
  SelectSeq(events, LAMBDA e : e.event_type = event_type /\ e.job_id = j)

\* C18: in the dynamic simulator a job has a completed record exactly when
\* one COMPLETE event is logged for it (never two); the record's
\* completion_time is the time of the END of the job's last operation, its
\* makespan is completion_time - arrival_time and its tardiness is
\* max(0, completion_time - due_date), which is not negative.
C18_CompletedRecord ==
  sim = "dynamic" =>
    \A j \in DynJobIds :
      LET completes == EventsOf("complete", j)
          ends == EventsOf("end", j)
      IN  IF j \in DOMAIN jobs_completed
          THEN LET r == jobs_completed[j]
               IN  /\ Len(completes) = 1
                   /\ Len(ends) = Len(jobs[j].operations)
                   /\ r.completion_time = ends[Len(ends)].time
                   /\ r.completion_time = completes[1].time
                   /\ r.job_id = j
                   /\ r.arrival_time = jobs[j].arrival_time
                   /\ r.due_date = jobs[j].due_date
                   /\ r.makespan = r.completion_time - r.arrival_time
                   /\ r.tardiness = (IF r.completion_time > r.due_date
                                     THEN r.completion_time - r.due_date ELSE 0)
                   /\ r.tardiness >= 0
          ELSE /\ completes = <<>>
               /\ Len(ends) < Len(jobs[j].operations) \/ jobs[j].operations = <<>>

\* One job was completed late and another before its due date.
C18_Witness ==
  /\ sim = "dynamic"
  /\ \E j, k \in DOMAIN jobs_completed :
       /\ jobs_completed[j].tardiness > 0
       /\ jobs_completed[k].completion_time < jobs_completed[k].due_date

\* C19: in the dynamic simulator a job that has arrived is in exactly one of
\* jobs_in_progress and jobs_completed, never in both; while it has
\* operations left to end it is in jobs_in_progress, and it leaves
\* jobs_in_progress in the very step that creates its completed record.
C19_InProgressUntilCompleted ==
  sim = "dynamic" =>
    /\ jobs_in_progress \cap DOMAIN jobs_completed = {}
    /\ \A j \in DynJobIds :
         LET arrived == EventsOf("arrival", j) # <<>>
             unfinished == Len(EventsOf("end", j)) < Len(jobs[j].operations)
         IN  /\ arrived => (j \in jobs_in_progress) # (j \in DOMAIN jobs_completed)
             /\ (arrived /\ unfinished) => j \in jobs_in_progress
             /\ (arrived /\ ~unfinished) => j \in DOMAIN jobs_completed
             /\ ~arrived => (j \notin jobs_in_progress /\ j \notin DOMAIN jobs_completed)

\* One job is completed while another, started, still has operations to end.
C19_Witness ==
  /\ sim = "dynamic"
  /\ \E j, k \in DynJobIds :
       /\ j \in DOMAIN jobs_completed
       /\ k \in jobs_in_progress
       /\ EventsOf("start", k) # <<>>
       /\ Len(EventsOf("end", k)) < Len(jobs[k].operations)

ExampleJobs == <<(<<(<<0, 3>>)>>), (<<(<<0, 1>>)>>), (<<(<<0, 2>>)>>)>>
ExampleDueDates == (0 :> 10) @@ (1 :> 5) @@ (2 :> 1)

RuleKeyOf(call, i) ==
  IF call.rule_name = "EDD" THEN call.due_dates[i]
  ELSE get_job_processing_time(call.jobs_data[i + 1])

\* C20: the order a rule returns for a list of n jobs is a permutation of
\* 0 .. n-1; along it the total processing time does not decrease under
\* SPT and does not increase under LPT, and the due date does not decrease
\* under EDD.  For the jobs [[(0,3)],[(0,1)],[(0,2)]] with due dates
\* {0:10, 1:5, 2:1} SPT gives [1,2,0], LPT [0,2,1] and EDD [2,1,0].
C20_RuleOrders ==
  rule_out.called =>
    LET n == Len(rule_in.jobs_data)
        ordered == rule_out.ordered
    IN  /\ rule_out.ok
        /\ Len(ordered) = n
        /\ \A i \in 0 .. (n - 1) : \E p \in 1 .. n : ordered[p] = i
        /\ \A p \in 1 .. (n - 1) :
             IF rule_in.rule_name = "LPT"
             THEN RuleKeyOf(rule_in, ordered[p]) >= RuleKeyOf(rule_in, ordered[p + 1])
             ELSE RuleKeyOf(rule_in, ordered[p]) <= RuleKeyOf(rule_in, ordered[p + 1])
        /\ (rule_in.jobs_data = ExampleJobs /\ rule_in.due_dates = ExampleDueDates) =>
             ordered = (IF rule_in.rule_name = "SPT" THEN <<1, 2, 0>>
                        ELSE IF rule_in.rule_name = "LPT" THEN <<0, 2, 1>>
                        ELSE <<2, 1, 0>>)

\* LPT has ordered the example's jobs.
C20_Witness ==
  /\ rule_in.rule_name = "LPT"
  /\ rule_in.jobs_data = ExampleJobs
  /\ rule_in.due_dates = ExampleDueDates
  /\ rule_out.called
  /\ rule_out.ordered = <<0, 2, 1>>

\* C21: under SPT, EDD and LPT alike, when the job admitted to a machine has
\* the same ranking key as another job in the machine's queue, the admitted
\* job is the one that entered the queue earlier.
C21_TieGoesToEarlier ==
  [][\A j, k \in DynJobIds, m \in Machines :
       (/\ sim = "dynamic"
        /\ scheduling_rule \in LocalRules
        /\ Logged("start", j, m)
        /\ k # j
        /\ InSeq(queue[m], k)
        /\ RuleKey(scheduling_rule, k) = RuleKey(scheduling_rule, j))
         => IndexOf(queue[m], j) < IndexOf(queue[m], k)]_vars

\* Under LPT a job started on the machine on which a job of the same key,
\* arrived before that start and not yet started, was waiting.
C21_Witness ==
  /\ sim = "dynamic"
  /\ scheduling_rule = "LPT"
  /\ \E a, s \in 1 .. Len(events) :
       /\ a < s
       /\ events[a].event_type = "arrival"
       /\ events[s].event_type = "start"
       /\ LET k == events[a].job_id
              j == events[s].job_id
          IN  /\ k # j
              /\ jobs[k].operations[1][1] = events[s].machine_id
              /\ RuleKey("LPT", k) = RuleKey("LPT", j)
              /\ \A i \in 1 .. s : ~(events[i].event_type = "start" /\ events[i].job_id = k)

\* The due date a candidate is ranked by when a missing one counts as
\* infinite.
DueOrInf(job) == IF job.due_date = NoneDue THEN Inf ELSE job.due_date

\* C22: under EDD the dispatch decision admits exactly the job with the
\* earliest due date of the queue (the earlier in the queue on a tie), a
\* job without a due date counting as due at infinity, so that it comes
\* after every job that has one.
C22_MissingDueDateSortsLast ==
  (d_out # "none" /\ d_in.scheduling_rule = "EDD") =>
    LET q == d_in.queue_jobs
        i == CHOOSE i \in 1 .. Len(q) : q[i].job_id = d_in.current_job_id
    IN  (d_out = "true") <=>
          \A k \in 1 .. Len(q) :
            k # i => \/ DueOrInf(q[i]) < DueOrInf(q[k])
                     \/ DueOrInf(q[i]) = DueOrInf(q[k]) /\ i < k

C24_UnknownRuleAdmitsNothing ==
  [][\A j \in DynJobIds, m \in Machines :
       (sim = "dynamic" /\ scheduling_rule \in UnknownRules)
         => ~Logged("start", j, m)]_vars

\* C25: two runs with the same random_seed generate the same jobs: the k-th
\* job of one run has the operations, arrival time and due date of the k-th
\* job of the other.
C25_SameSeedSameJobs ==
  \A k \in 1 .. MaxJobs :
    (k <= Len(replay.runs[1]) /\ k <= Len(replay.runs[2]))
      => replay.runs[1][k] = replay.runs[2][k]

FeedbacksOf(j, m) ==
  SelectSeq(feedbacks, LAMBDA f : f.current_job = j /\ f.machine_id = m)

EndsOf(j, m) ==
  SelectSeq(events, LAMBDA e : e.event_type = "end" /\ e.job_id = j /\ e.machine_id = m)

\* Feedback goes out only in delegated mode with training on, once per ended
\* operation, with reward -max(0, end_time - due_date).
FeedbackOncePerOperation ==
  /\ (scheduling_rule # "JADE" \/ ~training) => feedbacks = <<>>
  /\ (scheduling_rule = "JADE" /\ training) =>
       \A j \in DynJobIds, m \in Machines :
         Len(FeedbacksOf(j, m)) = Len(EndsOf(j, m))
  /\ \A i \in 1 .. Len(feedbacks) :
       LET f == feedbacks[i]
           late == f.time - jobs[f.current_job].due_date
       IN  /\ f.reward = (IF late > 0 THEN 0 - late ELSE 0)
           /\ f.reward <= 0

\* C26: feedback is sent only in delegated mode with training on, once after
\* each ended operation, with reward -max(0, end_time - due_date) <= 0 and
\* with the action that is the position of the admitted job in the queue
\* snapshot of its decision.
C26_FeedbackAfterEachOperation ==
  /\ FeedbackOncePerOperation
  /\ \A i \in 1 .. Len(feedbacks) :
       LET f == feedbacks[i]
       IN  /\ f.action + 1 \in 1 .. Len(f.queue_job_ids)
           /\ f.queue_job_ids[f.action + 1] = f.current_job

C28_EventLogAppendOnly ==
  [][/\ Len(events') >= Len(events)
     /\ SubSeq(events', 1, Len(events)) = events
     /\ \A i \in (Len(events) + 1) .. Len(events') :
          i > 1 => events'[i].time >= events'[i - 1].time]_vars

\* The end of a repair is in the log after an event of a later time than the
\* failure it ends.
C28_Witness ==
  \E i \in 1 .. Len(events), k \in 1 .. Len(failure_events) :
    /\ i > 1
    /\ events[i].event_type = "repair_end"
    /\ events[i].time = failure_events[k].repair_end_time
    /\ events[i].machine_id = failure_events[k].machine_id
    /\ events[i - 1].time > failure_events[k].failure_time

\* C29: for a machine with no recorded failure event, get_failure_stats
\* reports no failures, no downtime and an availability of 100, at any time.
C29_NoFailuresFullAvailability ==
  \A m \in Machines :
    (\A k \in 1 .. Len(failure_events) : failure_events[k].machine_id # m) =>
      LET stats == get_failure_stats(m)
      IN  /\ stats.num_failures = 0
          /\ stats.total_downtime = 0
          /\ stats.availability = 100

\* One machine has a recorded failure and counts downtime, another has none.
C29_Witness ==
  \E m, other \in Machines :
    /\ \A k \in 1 .. Len(failure_events) : failure_events[k].machine_id # m
    /\ get_failure_stats(other).num_failures > 0
    /\ get_failure_stats(other).availability < 100
    /\ now > 0

\* The parts of the claim that do not depend on the number of machines:
\* distinct machines of the shop, durations within range, and the due date.
GeneratedJobWellFormed(job) ==
  /\ Distinct(job.operations)
  /\ \A i \in 1 .. Len(job.operations) :
       /\ job.operations[i][1] \in 0 .. (generator.num_machines - 1)
       /\ job.operations[i][2] >= generator.min_duration
       /\ job.operations[i][2] <= generator.max_duration
  /\ 2 * job.due_date = 2 * job.arrival_time + 3 * SumDurations(job.operations)

\* C30 as stated: every generated job has between min_operations and
\* max_operations operations, on distinct machines, with durations within
\* range and due_date = arrival_time + total duration * 1.5, under every
\* configuration.
C30_JobWithinOperationRange ==
  \A k \in 1 .. Len(generator.jobs_generated) :
    LET job == generator.jobs_generated[k]
    IN  /\ Len(job.operations) >= generator.min_operations
        /\ Len(job.operations) <= generator.max_operations
        /\ GeneratedJobWellFormed(job)

\* C30 amended: the number of operations is the count drawn from
\* [min_operations, max_operations] capped at num_machines, so it lies in
\* [min(min_operations, num_machines), min(max_operations, num_machines)];
\* the rest is as stated.
C30_JobWithinCappedRange ==
  \A k \in 1 .. Len(generator.jobs_generated) :
    LET job == generator.jobs_generated[k]
    IN  /\ Len(job.operations) >= Min(generator.min_operations, generator.num_machines)
        /\ Len(job.operations) <= Min(generator.max_operations, generator.num_machines)
        /\ GeneratedJobWellFormed(job)

\* A job made by a generator with fewer machines than min_operations, and
\* with more than one operation.
C30_Witness ==
  /\ generator.num_machines < generator.min_operations
  /\ \E k \in 1 .. Len(generator.jobs_generated) :
       /\ Len(generator.jobs_generated[k].operations) = generator.num_machines
       /\ Len(generator.jobs_generated[k].operations) > 1

\* C31: the snapshot sent with a decision request lists the jobs in the
\* machine's wait queue, in queue order, each with the duration of the
\* operation it is waiting to run on that machine and with its due date.
C31_SnapshotHasNextOperation ==
  channel.job # NoJob =>
    /\ JobIdsOf(channel.queue_jobs) = queue[channel.machine]
    /\ \A i \in 1 .. Len(channel.queue_jobs) :
         LET entry == channel.queue_jobs[i]
         IN  /\ entry.due_date = jobs[entry.job_id].due_date
             /\ entry.next_op_duration = CurrentOp(entry.job_id)[2]

\* The ids and due dates of the snapshot are those of the wait queue.
SnapshotListsQueue ==
  channel.job # NoJob =>
    /\ JobIdsOf(channel.queue_jobs) = queue[channel.machine]
    /\ \A i \in 1 .. Len(channel.queue_jobs) :
         channel.queue_jobs[i].due_date = jobs[channel.queue_jobs[i].job_id].due_date

\* C32: a job that is granted the machine and denied releases it in the same
\* step, at the time of the grant, keeps its place in the wait queue, and is
\* woken once, RetryBackoff later, to request the machine again.
C32_DeniedJobRetriesAfterBackoff ==
  [][\A j \in AllJobIds :
       /\ (pc[j] = "req" /\ pc'[j] = "backoff") =>
            LET m == CurrentOp(j)[1]
            IN  /\ users[m] = j
                /\ users'[m] # j
                /\ now' = (IF channel.job = j THEN now ELSE Head(evq).t)
                /\ queue' = queue
                /\ InSeq(queue[m], j)
                /\ Len(SelectSeq(evq', LAMBDA e : e.k = "job" /\ e.id = j)) = 1
                /\ \E i \in 1 .. Len(evq') :
                     evq'[i] = Ev(now' + RetryBackoff, "job", j)
       /\ (pc[j] = "backoff" /\ pc'[j] = "req") =>
            /\ Head(evq).id = j
            /\ now' = Head(evq).t
            /\ queue' = queue]_vars

\* A denied job is in its backoff: it is in the wait queue of its machine
\* and does not hold the machine.
C32_Witness ==
  /\ denials > 0
  /\ \E j \in AllJobIds :
       /\ pc[j] = "backoff"
       /\ InSeq(queue[CurrentOp(j)[1]], j)
       /\ users[CurrentOp(j)[1]] # j

\* C33: in CNP mode a job whose machine is failed when an operation is
\* negotiated waits until the machine is available again: process_job never
\* returns with the operation unassigned.
C33_FailedMachineIsWaitedFor ==
  \A j \in AllJobIds : pc[j] # "unassigned"

\* C34: in delegated mode a reply that names a job which is not in the
\* machine's wait queue is handled as a failed request is, not as a denial.
C34_UnknownSelectionIsFailedRequest ==
  (/\ channel.job # NoJob
   /\ channel.resp.kind = "dict"
   /\ channel.resp.selected_job \in AllJobIds
   /\ ~InSeq(JobIdsOf(channel.queue_jobs), channel.resp.selected_job)) =>
    InlineDecision(channel.resp, channel.job, channel.queue_jobs).allowed
      = InlineDecision(RaiseResp, channel.job, channel.queue_jobs).allowed

\* C35: in CNP mode an operation is only started on the machine of its
\* required type: the start logged for a job names the machine type of the
\* job's current operation.
C35_StartsOnRequiredType ==
  [][(/\ sim = "cnp"
      /\ Len(events') > Len(events)
      /\ events'[Len(events')].event_type = "start") =>
       events'[Len(events')].machine_id
         = CurrentOp(events'[Len(events')].job_id)[1]]_vars

StaticLogOf(j) ==
  SelectSeq(events, LAMBDA e : e.job_id = j)

\* The log a job leaves when each of its operations is started and
\* finished once, in order.
StaticExpectedLog(j) ==
  [i \in 1 .. (2 * Len(jobs[j].operations)) |->
     [event_type |-> IF i % 2 = 1 THEN "start" ELSE "finish",
      machine_id |-> jobs[j].operations[(i + 1) \div 2][1]]]

StaticRunComplete ==
  /\ evq = <<>>
  /\ \A j \in StaticJobIds :
       /\ pc[j] = "done"
       /\ j \in DOMAIN jobs_completed
       /\ Len(StaticLogOf(j)) = 2 * Len(jobs[j].operations)
       /\ \A i \in 1 .. Len(StaticLogOf(j)) :
            /\ StaticLogOf(j)[i].event_type = StaticExpectedLog(j)[i].event_type
            /\ StaticLogOf(j)[i].machine_id = StaticExpectedLog(j)[i].machine_id
  /\ \A m \in Machines : users[m] = NoJob /\ put_queue[m] = <<>>

C38_InlineDecisionIsDecideAllow ==
  (/\ d_out # "none"
   /\ sim = "none"
   /\ InSeq(JobIdsOf(d_in.queue_jobs), d_in.current_job_id)) =>
    (d_out = "true")
      = InlineDecision(d_in.resp, d_in.current_job_id, d_in.queue_jobs).allowed

\* C40: in CNP mode, when the operation that failed ran on the machine of
\* its required type, the available_machines list of the operation_failure
\* request is empty, and so never names the machine that has just failed.
RenegotiatedType ==
  jobs[renegotiation.job_id].operations[renegotiation.operation_index + 1][1]

C40_RenegotiationListIsEmpty ==
  (/\ sim = "cnp"
   /\ renegotiation # NoRequest
   /\ renegotiation.failed_machine_id = RenegotiatedType) =>
    /\ renegotiation.available_machines = <<>>
    /\ ~InSeq(renegotiation.available_machines, renegotiation.failed_machine_id)

C40_Witness ==
  /\ sim = "cnp"
  /\ renegotiation # NoRequest
  /\ renegotiation.failed_machine_id = RenegotiatedType
  /\ reneg[renegotiation.job_id] \in {"failed", "success"}

\* C39: the availability get_failure_stats reports lies between 0 and 100,
\* for every machine and for the aggregate over all machines: the recorded
\* total downtime never exceeds the elapsed time it is divided by.
C39_AvailabilityWithinBounds ==
  \A machine_id \in Machines \cup {NoneMachine} :
    LET stats == get_failure_stats(machine_id)
    IN  /\ stats.availability \in 0 .. 100
        /\ stats.total_downtime <= (IF now > 0 THEN now ELSE 1)

====
